---- MODULE Spec2Model ----
(***************************************************************************)
(* Segregated-fit heap allocator (sf_malloc / sf_free / sf_realloc) with   *)
(* quick lists, modelled at the level of 8-byte heap rows.                 *)
(*                                                                         *)
(* A 64-bit row is a pair <<hi, lo>> of its two 32-bit halves.  Headers    *)
(* are stored XOR-ed with MAGIC, as in the source; pointers are rows with  *)
(* hi = 0 and lo = the address.  Block pointers are byte addresses of the  *)
(* block's prev_footer row (header at +8, links.next at +16, links.prev    *)
(* at +24).                                                                *)
(*                                                                         *)
(* Every C function is a pipeline of stages.  A stage is an operator that  *)
(* takes the machine M (all of the allocator's memory) as a parameter and  *)
(* returns the machine after the statements it models; a function that    *)
(* returns a value yields a record [M, ret].                               *)
(***************************************************************************)
EXTENDS Integers, Sequences, FiniteSets, TLC

VARIABLES
    heap,            \* the rows of [sf_mem_start(), sf_mem_end())
    heads,           \* sf_free_list_heads, 4 rows per dummy head
    quick,           \* sf_quick_lists: [length, first] per list
    maxAggPayload,   \* the static maxAggPayload
    sf_errno,        \* 0 or ENOMEM
    magic,           \* the process-wide MAGIC, fixed at start
    fault,           \* "none", or how the process died
    live,            \* caller's view: payload address -> requested size
    dead,            \* payload addresses freed and not handed out again
    last,            \* the most recent call and what it returned
    nops,            \* number of calls made so far
    nfills,          \* number of times the caller stored into a payload
    misuse,          \* TRUE once the caller passed an invalid pointer
    caller,           \* which of the caller programs below is running
    stats,           \* the values the statistics functions returned last
    memPages,        \* the number of pages sf_mem_grow can supply
    jobTable,        \* the jobs module's list of jobs and how its last link reads
    os,              \* the leader processes, the signals and the call in progress
    lookup,          \* the data store's list of KVPairs
    progStore,       \* the program store's list of statements
    progCounter,     \* line number the program counter is before, negative: the end
    got              \* arguments and results of the last data store call, and
                     \* the number of statements before the last program
                     \* store call

vars == <<heap, heads, quick, maxAggPayload, sf_errno, magic, fault,
          live, dead, last, nops, nfills, misuse, caller, stats, memPages, jobTable, os,
          lookup, progStore, progCounter, got>>

----------------------------------------------------------------------------
(* Program constants *)

ROW_SIZE == 8
MIN_BLOCK_SIZE == 32
BLOCK_ALIGN == 16

PAGE_SZ == 1024
NUM_FREE_LISTS == 10
NUM_QUICK_LISTS == 10
QUICK_LIST_MAX == 5
THIS_BLOCK_ALLOCATED == 1
PREV_BLOCK_ALLOCATED == 2
IN_QUICK_LIST == 4
ENOMEM == 12

(* Address layout of the process image *)
HEADS_BASE == 256      \* &sf_free_list_heads[0]
HEAP_BASE == 1024      \* sf_mem_start()
SIZEOF_SF_BLOCK == 32  \* sizeof(sf_block)
NULL == 0

(* Bounds of the exploration *)
MaxPages == 2          \* sf_mem_grow fails once the heap has this many pages
MaxOps == 3            \* calls per run of the mixed caller
MaxQuickMallocs == 7   \* requests per run of the quick caller
MaxFills == 1          \* caller stores into payloads per run
MaxRegrowOps == 4      \* calls per run of the regrow caller
MaxSmallOps == 6       \* calls per run of the small caller
MaxLinkerOps == 4      \* calls per run of the linker
MaxStatOps == 4        \* calls per run of the stats caller
MaxOomOps == 4         \* calls per run of the oom caller
MaxJobRuns == 2        \* calls of jobs_run per run of the jobs caller

----------------------------------------------------------------------------
(* 64-bit rows and XOR with MAGIC *)

\* x ^ m for one 32-bit half is computed bit by bit over the bits that
\* MAGIC may have set: XOR with a bit of weight b adds b when that bit of x
\* is clear and subtracts b when it is set.
FlipBit(x, m, b) ==
    IF (m \div b) % 2 = 0 THEN x
    ELSE IF (x \div b) % 2 = 1 THEN x - b ELSE x + b

XorHalf(x, m) ==
    FlipBit(FlipBit(FlipBit(FlipBit(x, m, 1), m, 16), m, 32), m, 1024)

\* the values MAGIC takes: 0 (as set by sf_set_magic(0) under test) and
\* 0x00000020_00000411
MagicValues == { <<0, 0>>, <<32, 1041>> }

\* w ^ MAGIC
XorMagic(M, w) == << XorHalf(w[1], M.magic[1]), XorHalf(w[2], M.magic[2]) >>

NullRow == <<0, 0>>
WildRow == <<1, 0>>
PtrRow(a) == IF a >= 0 THEN <<0, a>> ELSE WildRow
\* a row read as a pointer; rows with a non-zero high half point outside
\* every mapped region
WILD == 0 - 8
RowPtr(w) == IF w[1] = 0 THEN w[2] ELSE WILD

----------------------------------------------------------------------------
(* Memory: the heap rows and the rows of the free-list dummy heads *)

mem_start(M) == HEAP_BASE
mem_end(M) == HEAP_BASE + ROW_SIZE * Len(M.heap)

InHeap(M, a) == a >= HEAP_BASE /\ a < mem_end(M) /\ a % ROW_SIZE = 0
InHeads(a) ==
    a >= HEADS_BASE /\ a < HEADS_BASE + SIZEOF_SF_BLOCK * NUM_FREE_LISTS
    /\ a % ROW_SIZE = 0
Mapped(M, a) == InHeap(M, a) \/ InHeads(a)

Load(M, a) ==
    IF InHeap(M, a) THEN M.heap[(a - HEAP_BASE) \div ROW_SIZE + 1]
    ELSE IF InHeads(a) THEN M.heads[(a - HEADS_BASE) \div ROW_SIZE + 1]
    ELSE NullRow

Die(M, how) == IF M.fault = "none" THEN [M EXCEPT !.fault = how] ELSE M

\* a read through a pointer: the process dies when the row is not mapped
Touch(M, a) == IF Mapped(M, a) THEN M ELSE Die(M, "segv")

Store(M, a, w) ==
    IF M.fault # "none" THEN M
    ELSE IF InHeap(M, a)
        THEN [M EXCEPT !.heap[(a - HEAP_BASE) \div ROW_SIZE + 1] = w]
    ELSE IF InHeads(a)
        THEN [M EXCEPT !.heads[(a - HEADS_BASE) \div ROW_SIZE + 1] = w]
    ELSE Die(M, "segv")

\* field addresses of an sf_block
HeaderAt(b) == b + 8
NextAt(b) == b + 16
PrevAt(b) == b + 24
HeadAddr(c) == HEADS_BASE + SIZEOF_SF_BLOCK * c

----------------------------------------------------------------------------
(* Header macros *)

LowFlags(x) == x[2] % 16
SizeOf(x) == x[2] - (x[2] % 16)
Bit(x, f) == (x[2] \div f) % 2

GET_SIZE(M, header) == SizeOf(XorMagic(M, header))
GET_B_SIZE(M, block) == GET_SIZE(M, Load(M, HeaderAt(block)))
GET_PREV_ALLOCD(M, block) ==
    PREV_BLOCK_ALLOCATED
      * Bit(XorMagic(M, Load(M, HeaderAt(block))), PREV_BLOCK_ALLOCATED)
IS_ALLOCD(M, block) ==
    Bit(XorMagic(M, Load(M, HeaderAt(block))), THIS_BLOCK_ALLOCATED) = 1
IS_QUICK(M, block) ==
    Bit(XorMagic(M, Load(M, HeaderAt(block))), IN_QUICK_LIST) = 1
GET_PAYLOAD(M, block) == XorMagic(M, Load(M, HeaderAt(block)))[1]
NEXT_BLOCK_S(block, size) == block + size
NEXT_BLOCK(M, block) == NEXT_BLOCK_S(block, GET_B_SIZE(M, block))
PREV_BLOCK_S(block, size) == block - size
PREV_BLOCK(M, block) == PREV_BLOCK_S(block, GET_SIZE(M, Load(M, block)))

\* (payloadSize | sizeAndFlags) ^ MAGIC
MkHeader(M, payload, sizeAndFlags) == XorMagic(M, <<payload, sizeAndFlags>>)

\* block->header = (payloadSize | sizeAndFlags) ^ MAGIC
SetHeader(M, block, payload, sizeAndFlags) ==
    Store(M, HeaderAt(block), MkHeader(M, payload, sizeAndFlags))

\* block->header = (payloadSize | sizeAndFlags | GET_PREV_ALLOCD(block)) ^ MAGIC
SetHeaderKeepPrev(M, block, payload, sizeAndFlags) ==
    SetHeader(M, block, payload, sizeAndFlags + GET_PREV_ALLOCD(M, block))

\* *dst = *src for one row
CopyRow(M, dst, src) == Store(M, dst, Load(M, src))

----------------------------------------------------------------------------
(* bytesToFreeListIndex *)

RECURSIVE FreeListIndexLoop(_, _, _)
FreeListIndexLoop(size, binMax, index) ==
    IF size > binMax /\ index < NUM_FREE_LISTS - 1
    THEN FreeListIndexLoop(size, binMax * 2, index + 1)
    ELSE index

bytesToFreeListIndex(size) == FreeListIndexLoop(size, MIN_BLOCK_SIZE, 0)

----------------------------------------------------------------------------
(* updateMaxAggPayload: walk the heap summing the payload sizes of the     *)
(* allocated blocks that are not in a quick list                           *)

FirstBlock(M) == mem_start(M) + 4 * ROW_SIZE
Epilogue(M) == mem_end(M) - 2 * ROW_SIZE

\* x is the current block's header ^ MAGIC
RECURSIVE AggPayloadWalk(_, _, _)
AggPayloadStep(M, currentBlock, aggPayload, x) ==
    IF SizeOf(x) = 0 THEN [M |-> Die(M, "hang"), agg |-> aggPayload]
    ELSE AggPayloadWalk(M, NEXT_BLOCK_S(currentBlock, SizeOf(x)),
            IF Bit(x, THIS_BLOCK_ALLOCATED) = 1 /\ Bit(x, IN_QUICK_LIST) = 0
            THEN aggPayload + x[1] ELSE aggPayload)

\* while (currentBlock < epilogue) ...
AggPayloadWalk(M, currentBlock, aggPayload) ==
    IF ~(currentBlock < Epilogue(M)) THEN [M |-> M, agg |-> aggPayload]
    ELSE AggPayloadStep(M, currentBlock, aggPayload,
                        XorMagic(M, Load(M, HeaderAt(currentBlock))))

RecordAggPayload(r) ==
    IF r.agg > r.M.maxAgg THEN [r.M EXCEPT !.maxAgg = r.agg] ELSE r.M

updateMaxAggPayload(M) ==
    IF M.fault # "none" \/ mem_start(M) = mem_end(M) THEN M
    ELSE RecordAggPayload(AggPayloadWalk(M, FirstBlock(M), 0))

----------------------------------------------------------------------------
(* setPrevAllocd *)

\* the header with PREV_BLOCK_ALLOCATED cleared, then set when bit = 1
PrevAllocdHeader(M, block, bit) ==
    LET x == XorMagic(M, Load(M, HeaderAt(block)))
        cleared == x[2] - PREV_BLOCK_ALLOCATED * Bit(x, PREV_BLOCK_ALLOCATED)
    IN XorMagic(M, <<x[1], IF bit = 1 THEN cleared + PREV_BLOCK_ALLOCATED
                           ELSE cleared>>)

\* if (!IS_ALLOCD(block)) NEXT_BLOCK(block)->prev_footer = block->header
PrevAllocdFooter(M, block) ==
    IF ~IS_ALLOCD(M, block)
    THEN CopyRow(M, NEXT_BLOCK(M, block), HeaderAt(block))
    ELSE M

setPrevAllocd(M, block, bit) ==
    PrevAllocdFooter(
        Store(Touch(M, HeaderAt(block)), HeaderAt(block),
              PrevAllocdHeader(M, block, bit)),
        block)

----------------------------------------------------------------------------
(* Free lists: circular doubly linked lists anchored at the dummy heads *)

InitHeadNext(M, c) ==
    IF Load(M, NextAt(HeadAddr(c))) = NullRow
    THEN Store(M, NextAt(HeadAddr(c)), PtrRow(HeadAddr(c))) ELSE M

InitHeadPrev(M, c) ==
    IF Load(M, PrevAt(HeadAddr(c))) = NullRow
    THEN Store(M, PrevAt(HeadAddr(c)), PtrRow(HeadAddr(c))) ELSE M

verifyFreeListLinks(M, c) == InitHeadPrev(InitHeadNext(M, c), c)

\* for (c = 0; c < NUM_FREE_LISTS; c++) verifyFreeListLinks(c)
RECURSIVE VerifyAllFreeListLinks(_, _)
VerifyAllFreeListLinks(M, c) ==
    IF c >= NUM_FREE_LISTS THEN M
    ELSE VerifyAllFreeListLinks(verifyFreeListLinks(M, c), c + 1)

\* (block->prev)->next = block->next
UnlinkFromPrev(M, block) ==
    Store(M, NextAt(RowPtr(Load(M, PrevAt(block)))), Load(M, NextAt(block)))

\* (block->next)->prev = block->prev
UnlinkFromNext(M, block) ==
    Store(M, PrevAt(RowPtr(Load(M, NextAt(block)))), Load(M, PrevAt(block)))

\* block->prev = NULL; block->next = NULL
ClearLinks(M, block) ==
    Store(Store(M, PrevAt(block), NullRow), NextAt(block), NullRow)

removeFromFreeList(M, block) ==
    IF ~Mapped(M, PrevAt(block)) THEN Die(M, "segv")
    ELSE IF M.fault # "none" THEN M
    ELSE IF Load(M, PrevAt(block)) = NullRow
            \/ Load(M, NextAt(block)) = NullRow THEN M
    ELSE ClearLinks(UnlinkFromNext(UnlinkFromPrev(M, block), block), block)

\* (head.next)->prev = block
LinkOldFirst(M, block, head) ==
    Store(M, PrevAt(RowPtr(Load(M, NextAt(head)))), PtrRow(block))

\* the four link assignments of insertIntoFreeList
LinkAtHead(M, block, head) ==
    Store(
      LinkOldFirst(
        CopyRow(Store(M, PrevAt(block), PtrRow(head)),
                NextAt(block), NextAt(head)),
        block, head),
      NextAt(head), PtrRow(block))

insertIntoFreeList(M, block) ==
    IF ~Mapped(M, PrevAt(block)) THEN Die(M, "segv")
    ELSE IF M.fault # "none" THEN M
    ELSE IF Load(M, PrevAt(block)) # NullRow
            \/ Load(M, NextAt(block)) # NullRow THEN M
    ELSE LET c == bytesToFreeListIndex(GET_B_SIZE(M, block))
         IN LinkAtHead(verifyFreeListLinks(M, c), block, HeadAddr(c))

----------------------------------------------------------------------------
(* coalesce: returns the machine and the surviving block (NULL when the    *)
(* block is allocated).  The neighbours' state is read from their headers, *)
(* the previous block being located through block->prev_footer.           *)

\* NEXT_BLOCK(block)->prev_footer = block->header
FooterToNext(M, block) == CopyRow(M, NEXT_BLOCK(M, block), HeaderAt(block))

\* block->header = ((GET_B_SIZE(block) + extra) | GET_PREV_ALLOCD(block)) ^ MAGIC
GrowHeader(M, block, extra) ==
    SetHeaderKeepPrev(M, block, 0, GET_B_SIZE(M, block) + extra)

RemoveIfFree(M, allocd, neighbour) ==
    IF ~allocd THEN removeFromFreeList(M, neighbour) ELSE M

\* the four cases on the neighbours' allocation
CoalesceCases(M, block, prevBlock, nextBlock, prevAllocd, nextAllocd) ==
    IF M.fault # "none" THEN [M |-> M, ret |-> NULL]
    ELSE IF prevAllocd /\ nextAllocd THEN
      [M |-> insertIntoFreeList(M, block), ret |-> block]
    ELSE IF prevAllocd /\ ~nextAllocd THEN
      [M |-> insertIntoFreeList(
                FooterToNext(
                  GrowHeader(M, block, GET_B_SIZE(M, nextBlock)), block),
                block),
       ret |-> block]
    ELSE IF ~prevAllocd /\ nextAllocd THEN
      [M |-> insertIntoFreeList(
                CopyRow(GrowHeader(M, prevBlock, GET_B_SIZE(M, block)),
                        nextBlock, HeaderAt(prevBlock)),
                prevBlock),
       ret |-> prevBlock]
    ELSE
      [M |-> insertIntoFreeList(
                FooterToNext(
                  GrowHeader(M, prevBlock,
                      GET_B_SIZE(M, block) + GET_B_SIZE(M, nextBlock)),
                  prevBlock),
                prevBlock),
       ret |-> prevBlock]

\* prevAllocd, nextAllocd and the removal of the free neighbours
CoalesceNeighbours(M, block, prevBlock, nextBlock) ==
    CoalesceCases(
      RemoveIfFree(
        RemoveIfFree(
          Touch(Touch(M, HeaderAt(prevBlock)), HeaderAt(nextBlock)),
          IS_ALLOCD(M, prevBlock), prevBlock),
        IS_ALLOCD(M, nextBlock), nextBlock),
      block, prevBlock, nextBlock,
      IS_ALLOCD(M, prevBlock), IS_ALLOCD(M, nextBlock))

CoalesceFree(M, block) ==
    CoalesceNeighbours(M, block, PREV_BLOCK(M, block), NEXT_BLOCK(M, block))

coalesce(M, block) ==
    IF ~Mapped(M, HeaderAt(block)) THEN [M |-> Die(M, "segv"), ret |-> NULL]
    ELSE IF M.fault # "none" \/ IS_ALLOCD(M, block)
        THEN [M |-> M, ret |-> NULL]
    ELSE CoalesceFree(removeFromFreeList(M, block), block)

----------------------------------------------------------------------------
(* Quick lists *)

\* one iteration of the flush loop up to the call of coalesce: the block
\* is given a free header, copied to the next block's prev_footer
FlushHeader(M, current, blockSize) ==
    CopyRow(
      SetHeaderKeepPrev(Touch(M, HeaderAt(current)), current, 0, blockSize),
      NEXT_BLOCK_S(current, blockSize), HeaderAt(current))

RECURSIVE FlushQuickList(_, _, _, _, _)
\* next = current->next; coalesce(current); current = next
FlushCoalesce(M, current, c, blockSize, len) ==
    FlushQuickList(coalesce(M, current).M, RowPtr(Load(M, NextAt(current))),
                   c + 1, blockSize, len)

\* for (c = 0; c < length; c++) ...
FlushQuickList(M, current, c, blockSize, len) ==
    IF c >= len \/ M.fault # "none" THEN M
    ELSE FlushCoalesce(FlushHeader(M, current, blockSize),
                       current, c, blockSize, len)

\* first = block; length = 1
QuickReset(M, block, q) ==
    IF M.fault # "none" THEN M
    ELSE [M EXCEPT !.quick[q] = [length |-> 1, first |-> PtrRow(block)]]

\* length += 1
QuickCount(M, q) ==
    IF M.fault # "none" THEN M
    ELSE [M EXCEPT !.quick[q].length = @ + 1]

\* first = block; block->next = oldFirst; oldFirst->prev = block
QuickLink(M, block, q, oldFirst) ==
    Store(
      Store([M EXCEPT !.quick[q].first = PtrRow(block)],
            NextAt(block), oldFirst),
      PrevAt(RowPtr(oldFirst)), PtrRow(block))

QuickPush(M, block, q) ==
    IF M.quick[q].first # NullRow
    THEN QuickCount(QuickLink(M, block, q, M.quick[q].first), q)
    ELSE QuickReset(M, block, q)

QuickInsert(M, block, blockSize, q) ==
    IF M.fault # "none" THEN M
    ELSE IF M.quick[q].length <= QUICK_LIST_MAX THEN QuickPush(M, block, q)
    ELSE QuickReset(
           FlushQuickList(M, RowPtr(M.quick[q].first), 0, blockSize,
                          M.quick[q].length),
           block, q)

\* q is the C index quickListI plus one
insertIntoQuickList(M, block, blockSize, q) ==
    QuickInsert(
      CopyRow(
        SetHeader(M, block, 0,
                  blockSize + THIS_BLOCK_ALLOCATED + GET_PREV_ALLOCD(M, block)
                    + IN_QUICK_LIST),
        NEXT_BLOCK_S(block, blockSize), HeaderAt(block)),
      block, blockSize, q)

\* the quick lists are never searched
getQuickListBlock_Mutant(M, size) == [M |-> M, ret |-> NullRow]

\* ret is the popped pointer as a row, NullRow for NULL
getQuickListBlock(M, size) ==
    LET index == (size - MIN_BLOCK_SIZE) \div BLOCK_ALIGN
        q == index + 1
        toAllocate == M.quick[q].first
    IN IF index >= NUM_QUICK_LISTS THEN [M |-> M, ret |-> NullRow]
       ELSE IF M.quick[q].length <= 0 THEN [M |-> M, ret |-> NullRow]
       ELSE IF toAllocate = NullRow THEN [M |-> M, ret |-> NullRow]
       ELSE IF ~Mapped(M, NextAt(RowPtr(toAllocate)))
           THEN [M |-> Die(M, "segv"), ret |-> NullRow]
       ELSE [M |-> [M EXCEPT !.quick[q] =
                       [length |-> @.length - 1,
                        first |-> Load(M, NextAt(RowPtr(toAllocate)))]],
             ret |-> toAllocate]

----------------------------------------------------------------------------
(* getFreeListBlock *)

\* a list longer than this holds a cycle that avoids its dummy head
ListFuel == 2 * (PAGE_SZ \div MIN_BLOCK_SIZE) * MaxPages

\* while (current != start) ...
RECURSIVE FreeListScan(_, _, _, _, _)
FreeListScan(M, start, current, size, fuel) ==
    IF current = start THEN [M |-> M, ret |-> NULL]
    ELSE IF ~Mapped(M, HeaderAt(current)) \/ ~Mapped(M, NextAt(current))
        THEN [M |-> Die(M, "segv"), ret |-> NULL]
    ELSE IF fuel = 0 THEN [M |-> Die(M, "hang"), ret |-> NULL]
    ELSE IF GET_B_SIZE(M, current) < size
        THEN FreeListScan(M, start, RowPtr(Load(M, NextAt(current))), size,
                          fuel - 1)
    ELSE [M |-> removeFromFreeList(M, current), ret |-> current]

RECURSIVE FreeListsLoop(_, _, _)
FreeListsNext(r, freeListI, size) ==
    IF r.ret # NULL \/ r.M.fault # "none" THEN r
    ELSE FreeListsLoop(r.M, freeListI + 1, size)

FreeListsScan(M, freeListI, size) ==
    FreeListsNext(
      FreeListScan(M, HeadAddr(freeListI),
                   RowPtr(Load(M, NextAt(HeadAddr(freeListI)))), size,
                   ListFuel),
      freeListI, size)

\* for (; freeListI < NUM_FREE_LISTS; freeListI++) ...
FreeListsLoop(M, freeListI, size) ==
    IF freeListI >= NUM_FREE_LISTS THEN [M |-> M, ret |-> NULL]
    ELSE FreeListsScan(verifyFreeListLinks(M, freeListI), freeListI, size)

getFreeListBlock(M, size) ==
    IF M.fault # "none" THEN [M |-> M, ret |-> NULL]
    ELSE FreeListsLoop(M, bytesToFreeListIndex(size), size)

----------------------------------------------------------------------------
(* sf_mem_grow, initializeHeap, extendHeap *)

ZeroRows == [i \in 1..(PAGE_SZ \div ROW_SIZE) |-> NullRow]

\* extends the heap by one zeroed page and returns its start; NULL when no
\* more memory is available
sf_mem_grow(M) ==
    IF Len(M.heap) >= M.pages * (PAGE_SZ \div ROW_SIZE)
    THEN [M |-> M, ret |-> NULL]
    ELSE [M |-> [M EXCEPT !.heap = @ \o ZeroRows], ret |-> mem_end(M)]

\* the prologue, the first free block and the epilogue
InitBlocks(M, prologue, firstBlock, blockSize, epilogue) ==
    CopyRow(
      SetHeader(
        insertIntoFreeList(
          Store(
            Store(
              SetHeader(
                CopyRow(
                  SetHeader(M, prologue, 0,
                            MIN_BLOCK_SIZE + THIS_BLOCK_ALLOCATED),
                  firstBlock, HeaderAt(prologue)),
                firstBlock, 0, blockSize + PREV_BLOCK_ALLOCATED),
              PrevAt(firstBlock), NullRow),
            NextAt(firstBlock), NullRow),
          firstBlock),
        epilogue, 0, THIS_BLOCK_ALLOCATED),
      epilogue, HeaderAt(firstBlock))

InitGrown(g) ==
    IF g.ret = NULL THEN [M |-> g.M, ret |-> 0 - 1]
    ELSE [M |-> InitBlocks(g.M, g.ret, g.ret + 4 * ROW_SIZE,
                           mem_end(g.M) - g.ret - 6 * ROW_SIZE,
                           mem_end(g.M) - 2 * ROW_SIZE),
          ret |-> 1]

initializeHeap(M) == InitGrown(sf_mem_grow(M))

\* newEpilogue->prev_footer = freeBlock->header
ExtendFooter(c, newEpilogue) ==
    CopyRow(Touch(c.M, HeaderAt(c.ret)), newEpilogue, HeaderAt(c.ret))

\* the new epilogue and the old epilogue turned into a free block
ExtendBlocks(M, oldEpilogue, newEpilogue) ==
    CopyRow(
      Store(
        Store(
          SetHeaderKeepPrev(
            SetHeader(M, newEpilogue, 0, THIS_BLOCK_ALLOCATED),
            oldEpilogue, 0, newEpilogue - oldEpilogue),
          PrevAt(oldEpilogue), NullRow),
        NextAt(oldEpilogue), NullRow),
      newEpilogue, HeaderAt(oldEpilogue))

ExtendGrown(g, oldEpilogue) ==
    IF g.ret = NULL THEN [M |-> g.M, ret |-> 0 - 1]
    ELSE [M |-> ExtendFooter(
                  coalesce(
                    ExtendBlocks(g.M, oldEpilogue,
                                 mem_end(g.M) - 2 * ROW_SIZE),
                    oldEpilogue),
                  mem_end(g.M) - 2 * ROW_SIZE),
          ret |-> 1]

extendHeap(M) == ExtendGrown(sf_mem_grow(M), mem_end(M) - 2 * ROW_SIZE)

----------------------------------------------------------------------------
(* splitBlock *)

\* pastFrag = NEXT_BLOCK_S(frag, remainderSize);
\* pastFrag->prev_footer = frag->header, frag being what coalesce returned
SplitFooter(c, remainderSize) ==
    CopyRow(Touch(c.M, HeaderAt(c.ret)),
            NEXT_BLOCK_S(c.ret, remainderSize), HeaderAt(c.ret))

\* the allocated chunk's header and the fragment's header, prev_footer and
\* links
SplitHeaders(M, block, payloadSize, effectiveSize, remainderSize, frag) ==
    Store(
      Store(
        CopyRow(
          SetHeader(
            removeFromFreeList(
              SetHeaderKeepPrev(M, block, payloadSize,
                                effectiveSize + THIS_BLOCK_ALLOCATED),
              block),
            frag, 0, remainderSize + PREV_BLOCK_ALLOCATED),
          frag, HeaderAt(block)),
        NextAt(frag), NullRow),
      PrevAt(frag), NullRow)

splitBlock(M, block, payloadSize, effectiveSize, remainderSize) ==
    SplitFooter(
      coalesce(
        SplitHeaders(M, block, payloadSize, effectiveSize, remainderSize,
                     NEXT_BLOCK_S(block, effectiveSize)),
        NEXT_BLOCK_S(block, effectiveSize)),
      remainderSize)

----------------------------------------------------------------------------
(* sf_malloc *)

\* size + 8 rounded up to a multiple of 16, at least MIN_BLOCK_SIZE
EffectiveSize(size) ==
    LET e == size + 8
        r == e + ((BLOCK_ALIGN - (e % BLOCK_ALIGN)) % BLOCK_ALIGN)
    IN IF r < MIN_BLOCK_SIZE THEN MIN_BLOCK_SIZE ELSE r

\* ((void*) block) + 2*sizeof(sf_header)
PayloadOf(block) == block + 2 * ROW_SIZE

\* the block popped from a quick list becomes a normal allocated block
QuickAllocate(M, block, size, effectiveSize) ==
    updateMaxAggPayload(
      setPrevAllocd(
        CopyRow(
          SetHeaderKeepPrev(Touch(M, HeaderAt(block)), block, size,
                            effectiveSize + THIS_BLOCK_ALLOCATED),
          NEXT_BLOCK_S(block, effectiveSize), HeaderAt(block)),
        NEXT_BLOCK_S(block, effectiveSize), 1))

\* the else branch: allocate the entire block
AllocateWhole(M, block, size, blockSize) ==
    setPrevAllocd(
      CopyRow(
        removeFromFreeList(
          SetHeaderKeepPrev(M, block, size,
                            blockSize + THIS_BLOCK_ALLOCATED),
          block),
        NEXT_BLOCK_S(block, blockSize), HeaderAt(block)),
      NEXT_BLOCK_S(block, blockSize), 1)

\* split when the remainder can stand as a block
PlaceBlock_Mutant(M, block, size, effectiveSize, blockSize) ==
    AllocateWhole(M, block, size, blockSize)
PlaceBlock(M, block, size, effectiveSize, blockSize) ==
    IF blockSize - effectiveSize >= MIN_BLOCK_SIZE
    THEN splitBlock(M, block, size, effectiveSize, blockSize - effectiveSize)
    ELSE AllocateWhole(M, block, size, blockSize)

MallocPlace(f, size, effectiveSize) ==
    IF f.ret = NULL \/ f.M.fault # "none" THEN [M |-> f.M, ret |-> NULL]
    ELSE [M |-> updateMaxAggPayload(
                  PlaceBlock(f.M, f.ret, size, effectiveSize,
                             GET_B_SIZE(f.M, f.ret))),
          ret |-> PayloadOf(f.ret)]

\* while (block == NULL) { extendHeap(); block = getFreeListBlock(...); }
RECURSIVE ExtendUntilFit(_, _)
ExtendLook(r, effectiveSize) ==
    IF r.ret # NULL \/ r.M.fault # "none" THEN r
    ELSE ExtendUntilFit(r.M, effectiveSize)

ExtendRetry_Mutant(e, effectiveSize) ==
    IF e.M.fault # "none" \/ e.ret < 0 THEN [M |-> e.M, ret |-> NULL]
    ELSE ExtendLook(getFreeListBlock(e.M, effectiveSize), effectiveSize)

ExtendRetry(e, effectiveSize) ==
    IF e.M.fault # "none" THEN [M |-> e.M, ret |-> NULL]
    ELSE IF e.ret < 0
        THEN [M |-> [e.M EXCEPT !.errno = ENOMEM], ret |-> NULL]
    ELSE ExtendLook(getFreeListBlock(e.M, effectiveSize), effectiveSize)

ExtendUntilFit(M, effectiveSize) == ExtendRetry(extendHeap(M), effectiveSize)

MallocFree(f, size, effectiveSize) ==
    IF f.ret # NULL \/ f.M.fault # "none"
    THEN MallocPlace(f, size, effectiveSize)
    ELSE MallocPlace(ExtendUntilFit(f.M, effectiveSize), size, effectiveSize)

MallocQuick(qb, size, effectiveSize) ==
    IF qb.M.fault # "none" THEN [M |-> qb.M, ret |-> NULL]
    ELSE IF qb.ret # NullRow
        THEN [M |-> QuickAllocate(qb.M, RowPtr(qb.ret), size, effectiveSize),
              ret |-> PayloadOf(RowPtr(qb.ret))]
    ELSE MallocFree(getFreeListBlock(qb.M, effectiveSize), size,
                    effectiveSize)

MallocBody(M, size) ==
    IF EffectiveSize(size) < size THEN [M |-> M, ret |-> NULL]
    ELSE MallocQuick(getQuickListBlock(M, EffectiveSize(size)), size,
                     EffectiveSize(size))

MallocInitialized(i, size) ==
    IF i.ret < 0 THEN [M |-> [i.M EXCEPT !.errno = ENOMEM], ret |-> NULL]
    ELSE MallocBody(i.M, size)

MallocInit(M, size) ==
    IF mem_start(M) = mem_end(M)
    THEN MallocInitialized(initializeHeap(M), size)
    ELSE MallocBody(M, size)

sf_malloc(M, size) ==
    IF M.fault # "none" \/ size = 0 THEN [M |-> M, ret |-> NULL]
    ELSE MallocInit(VerifyAllFreeListLinks(M, 0), size)

----------------------------------------------------------------------------
(* verifyPointer: ret is the block, NULL when the heap is uninitialized;   *)
(* the machine dies with "abort" for an invalid pointer                    *)

verifyPointer(M, pp) ==
    LET block == pp - 2 * ROW_SIZE
        blockEnd == block + SIZEOF_SF_BLOCK
        blockSize == GET_B_SIZE(M, block)
        prevBlock == PREV_BLOCK(M, block)
        Abort == [M |-> Die(M, "abort"), ret |-> NULL]
    IN IF M.fault # "none" THEN [M |-> M, ret |-> NULL]
       ELSE IF pp = NULL THEN Abort
       ELSE IF pp % BLOCK_ALIGN # 0 THEN Abort
       ELSE IF mem_start(M) = mem_end(M) THEN [M |-> M, ret |-> NULL]
       ELSE IF block < mem_start(M) + 4 * ROW_SIZE THEN Abort
       ELSE IF blockEnd >= mem_end(M) - 2 * ROW_SIZE THEN Abort
       ELSE IF blockSize < MIN_BLOCK_SIZE THEN Abort
       ELSE IF blockSize % 16 # 0 THEN Abort
       ELSE IF ~IS_ALLOCD(M, block) THEN Abort
       ELSE IF GET_PREV_ALLOCD(M, block) = 0
               /\ ~Mapped(M, HeaderAt(prevBlock))
           THEN [M |-> Die(M, "segv"), ret |-> NULL]
       ELSE IF GET_PREV_ALLOCD(M, block) = 0 /\ IS_ALLOCD(M, prevBlock)
           THEN Abort
       ELSE [M |-> M, ret |-> block]

----------------------------------------------------------------------------
(* sf_free *)

\* nextBlock = coalesce(block); nextBlock->prev_footer = block->header
FreeFooter(c, block) == CopyRow(c.M, c.ret, HeaderAt(block))

\* the free-list path: free header, cleared links, the next block's
\* prev_footer and prev-allocated bit, coalesce
FreeToList(M, block, blockSize) ==
    FreeFooter(
      coalesce(
        setPrevAllocd(
          CopyRow(
            Store(
              Store(SetHeaderKeepPrev(M, block, 0, blockSize),
                    NextAt(block), NullRow),
              PrevAt(block), NullRow),
            NEXT_BLOCK_S(block, blockSize), HeaderAt(block)),
          NEXT_BLOCK_S(block, blockSize), 0),
        block),
      block)

\* every freed block goes to the free lists at once
FreeBlock_Mutant(M, block, blockSize) == FreeToList(M, block, blockSize)

\* quickListI < NUM_QUICK_LISTS: the quick list, else the free lists
FreeBlock(M, block, blockSize) ==
    IF (blockSize - MIN_BLOCK_SIZE) \div BLOCK_ALIGN < NUM_QUICK_LISTS
    THEN insertIntoQuickList(M, block, blockSize,
            (blockSize - MIN_BLOCK_SIZE) \div BLOCK_ALIGN + 1)
    ELSE FreeToList(M, block, blockSize)

FreeVerified(v) ==
    IF v.M.fault # "none" THEN v.M
    ELSE IF v.ret = NULL THEN Die(v.M, "abort")
    ELSE FreeBlock(v.M, v.ret, GET_B_SIZE(v.M, v.ret))

sf_free(M, pp) == FreeVerified(verifyPointer(M, pp))

----------------------------------------------------------------------------
(* sf_realloc *)

\* memcpy over overlapping regions is undefined: the rows are copied in
\* ascending or in descending address order
CopyDirs == {"up", "down"}

\* copies rows i..n-1 (ascending) or n-1-i..0 (descending)
RECURSIVE CopyRows(_, _, _, _, _, _)
CopyRows(M, dst, src, i, n, dir) ==
    IF i >= n \/ M.fault # "none" THEN M
    ELSE LET k == IF dir = "up" THEN i ELSE n - 1 - i
         IN CopyRows(
              CopyRow(Touch(M, src + ROW_SIZE * k),
                      dst + ROW_SIZE * k, src + ROW_SIZE * k),
              dst, src, i + 1, n, dir)

\* the sizes of the model are whole numbers of rows
memcpy(M, dst, src, n, dir) == CopyRows(M, dst, src, 0, n \div ROW_SIZE, dir)

ReallocMoved(m, pp, rsize, dir) ==
    IF m.ret = NULL \/ m.M.fault # "none" THEN [M |-> m.M, ret |-> NULL]
    ELSE [M |-> sf_free(memcpy(m.M, m.ret, pp, rsize, dir), pp),
          ret |-> m.ret]

ReallocBlock(M, block, pp, rsize, dir, reffectiveSize, blockSize) ==
    IF reffectiveSize < rsize THEN [M |-> M, ret |-> NULL]
    ELSE IF reffectiveSize > blockSize
        THEN ReallocMoved(sf_malloc(M, rsize), pp, rsize, dir)
    ELSE IF reffectiveSize = blockSize
        THEN [M |-> SetHeaderKeepPrev(M, block, rsize,
                                      blockSize + THIS_BLOCK_ALLOCATED),
              ret |-> pp]
    ELSE IF blockSize - reffectiveSize < MIN_BLOCK_SIZE
        THEN [M |-> SetHeaderKeepPrev(M, block, rsize,
                                      blockSize + THIS_BLOCK_ALLOCATED),
              ret |-> pp]
    ELSE [M |-> splitBlock(M, block, rsize, reffectiveSize,
                           blockSize - reffectiveSize),
          ret |-> pp]

ReallocVerified(v, pp, rsize, dir) ==
    IF v.M.fault # "none" \/ v.ret = NULL THEN [M |-> v.M, ret |-> NULL]
    ELSE ReallocBlock(VerifyAllFreeListLinks(v.M, 0), v.ret, pp, rsize, dir,
                      EffectiveSize(rsize), GET_B_SIZE(v.M, v.ret))

sf_realloc(M, pp, rsize, dir) ==
    IF rsize = 0 THEN [M |-> sf_free(M, pp), ret |-> NULL]
    ELSE ReallocVerified(verifyPointer(M, pp), pp, rsize, dir)

----------------------------------------------------------------------------
(* sf_internal_fragmentation and sf_peak_utilization.  Both divide two      *)
(* doubles that hold integers below 2^32; the quotient is kept as the pair  *)
(* of the two, and quotients are compared by cross-multiplication.          *)

Ratio(num, den) == <<num, den>>
RatioLeq(x, y) == x[1] * y[2] <= y[1] * x[2]

\* x is the current block's header ^ MAGIC
RECURSIVE FragWalk(_, _, _, _)
FragStep(M, currentBlock, payloadSum, blockSum, x) ==
    IF SizeOf(x) = 0
    THEN [M |-> Die(M, "hang"), payloadSum |-> payloadSum,
          blockSum |-> blockSum]
    ELSE IF Bit(x, THIS_BLOCK_ALLOCATED) = 1 /\ Bit(x, IN_QUICK_LIST) = 0
    THEN FragWalk(M, NEXT_BLOCK_S(currentBlock, SizeOf(x)),
                  payloadSum + x[1], blockSum + SizeOf(x))
    ELSE FragWalk(M, NEXT_BLOCK_S(currentBlock, SizeOf(x)),
                  payloadSum, blockSum)

\* while (currentBlock < epilogue) ...
FragWalk(M, currentBlock, payloadSum, blockSum) ==
    IF ~(currentBlock < Epilogue(M))
    THEN [M |-> M, payloadSum |-> payloadSum, blockSum |-> blockSum]
    ELSE FragStep(M, currentBlock, payloadSum, blockSum,
                  XorMagic(M, Load(M, HeaderAt(currentBlock))))

FragQuotient_Mutant(w) ==
    [M |-> w.M,
     ret |-> IF w.blockSum = 0 THEN Ratio(0, 1)
             ELSE Ratio(w.blockSum, w.payloadSum)]

\* if (blockSum == 0) return 0; return payloadSum / blockSum
FragQuotient(w) ==
    [M |-> w.M,
     ret |-> IF w.blockSum = 0 THEN Ratio(0, 1)
             ELSE Ratio(w.payloadSum, w.blockSum)]

sf_internal_fragmentation(M) ==
    IF mem_start(M) = mem_end(M) THEN [M |-> M, ret |-> Ratio(0, 1)]
    ELSE FragQuotient(FragWalk(M, FirstBlock(M), 0, 0))

\* return maxAggPayload / heapSize, after updateMaxAggPayload()
PeakQuotient(M, heapSize) == [M |-> M, ret |-> Ratio(M.maxAgg, heapSize)]

sf_peak_utilization(M) ==
    IF mem_end(M) - mem_start(M) = 0 THEN [M |-> M, ret |-> Ratio(0, 1)]
    ELSE PeakQuotient(updateMaxAggPayload(M), mem_end(M) - mem_start(M))

----------------------------------------------------------------------------
(* The caller: a client that calls the allocator and stores into the       *)
(* payloads it owns.  live holds the allocations the caller owns as        *)
(* records [p, s]: payload address and requested size.                     *)

Mach ==
    [heap |-> heap, heads |-> heads, quick |-> quick,
     maxAgg |-> maxAggPayload, errno |-> sf_errno, fault |-> fault,
     magic |-> magic, pages |-> memPages]

Commit(M) ==
    /\ heap' = M.heap
    /\ heads' = M.heads
    /\ quick' = M.quick
    /\ maxAggPayload' = M.maxAgg
    /\ sf_errno' = M.errno
    /\ fault' = M.fault
    /\ magic' = M.magic

\* the allocated blocks outside the quick lists from b on, each with its
\* size and its payload size
RECURSIVE HeldFrom(_)
HeldFrom(b) ==
    IF b >= Epilogue(Mach) \/ GET_B_SIZE(Mach, b) < MIN_BLOCK_SIZE THEN {}
    ELSE (IF IS_ALLOCD(Mach, b) /\ ~IS_QUICK(Mach, b)
          THEN {<<b, GET_B_SIZE(Mach, b), GET_PAYLOAD(Mach, b)>>} ELSE {})
         \cup HeldFrom(NEXT_BLOCK(Mach, b))

AllocatedBlocks == HeldFrom(FirstBlock(Mach))

\* a call, what it returned, and the allocated blocks when it was made
Call(op, p, size, ret) ==
    [op |-> op, p |-> p, size |-> size, ret |-> ret, held |-> AllocatedBlocks]

\* the caller programs of this development
Callers == {"mixed", "quick", "regrow", "small", "stats", "oom", "jobs", "linker",
            "capture", "session", "store", "prog", "fit"}

Init ==
    /\ heap = <<>>
    /\ heads = [i \in 1..(4 * NUM_FREE_LISTS) |-> NullRow]
    /\ quick = [q \in 1..NUM_QUICK_LISTS |-> [length |-> 0, first |-> NullRow]]
    /\ maxAggPayload = 0
    /\ sf_errno = 0
    /\ magic \in MagicValues
    /\ fault = "none"
    /\ live = {}
    /\ dead = {}
    /\ nops = 0
    /\ nfills = 0
    /\ misuse = FALSE
    /\ caller \in Callers
    /\ stats = [frag |-> Ratio(0, 1), peak |-> Ratio(0, 1)]
    /\ memPages \in IF caller = "oom" THEN 0..MaxPages ELSE {MaxPages}
    /\ last = Call("none", NULL, 0, NULL)
    /\ jobTable = [jobs |-> <<>>, tail |-> "null"]
    /\ lookup = <<>>
    /\ progStore = <<>>
    /\ progCounter = 0 - 1
    /\ got = [var |-> <<>>, str |-> [null |-> TRUE, s |-> <<>>], valp |-> 0, n |-> 0]
    /\ os = [procs |-> [pid \in 1..MaxJobRuns |->
                          [state |-> "none",
                           stage |-> [how |-> "none", code |-> 0],
                           status |-> 0, writes |-> <<>>]],
             pending |-> 0, blocked |-> FALSE, observed |-> {},
             run |-> [pc |-> "idle", jobId |-> 0, pid |-> 0, tail |-> "null",
                     pline |-> [capture_output |-> 0, writes |-> <<>>]]]

\* request sizes of the mixed caller.  24 bytes give a minimum-size block whose
\* payload ends on the next block's prev_footer row; 200 bytes give a block
\* too large for the quick lists; LastFit bytes take all that remains of a
\* fresh page behind one minimum-size block.
LastFit == PAGE_SZ - 6 * ROW_SIZE - MIN_BLOCK_SIZE - ROW_SIZE
MallocSizes == {24, 200, LastFit}
ReallocSizes == {24, 40, 216}

Running == fault = "none" /\ ~misuse

MallocReturn(r, size) ==
    /\ Commit(r.M)
    /\ live' = IF r.ret # NULL /\ r.M.fault = "none"
               THEN live \cup {[p |-> r.ret, s |-> size]} ELSE live
    /\ dead' = dead \ {r.ret}
    /\ last' = Call("malloc", NULL, size, r.ret)
    /\ UNCHANGED <<nfills, misuse, caller, stats, memPages, jobTable, os,
          lookup, progStore, progCounter, got>>

Malloc(size) ==
    /\ Running
    /\ MallocReturn(sf_malloc(Mach, size), size)

FreeReturn(M, e) ==
    /\ Commit(M)
    /\ live' = live \ {e}
    /\ dead' = dead \cup {e.p}
    /\ last' = Call("free", e.p, 0, NULL)
    /\ UNCHANGED <<nfills, misuse, caller, stats, memPages, jobTable, os,
          lookup, progStore, progCounter, got>>

Free(e) ==
    /\ Running
    /\ FreeReturn(sf_free(Mach, e.p), e)

ReallocReturn(r, e, rsize) ==
    /\ Commit(r.M)
    /\ live' = IF r.M.fault # "none" \/ r.ret = NULL THEN live
               ELSE (live \ {e}) \cup {[p |-> r.ret, s |-> rsize]}
    /\ dead' = IF r.M.fault # "none" \/ r.ret = NULL \/ r.ret = e.p THEN dead
               ELSE (dead \cup {e.p}) \ {r.ret}
    /\ last' = Call("realloc", e.p, rsize, r.ret)
    /\ UNCHANGED <<nfills, misuse, caller, stats, memPages, jobTable, os,
          lookup, progStore, progCounter, got>>

Realloc(e, rsize, dir) ==
    /\ Running
    /\ ReallocReturn(sf_realloc(Mach, e.p, rsize, dir), e, rsize)

\* the caller stores one value into every row of a payload it owns: zero,
\* the bytes of MAGIC, or the payload's own address
FillValues(e) == {NullRow, magic, PtrRow(e.p)}

FillRows(M, p, w, n) ==
    LET first == (p - HEAP_BASE) \div ROW_SIZE + 1
    IN [M EXCEPT !.heap =
          [k \in 1..Len(M.heap) |->
             IF k >= first /\ k < first + n THEN w ELSE M.heap[k]]]

Fill(e, w) ==
    /\ Running
    /\ nfills < MaxFills
    /\ Commit(FillRows(Mach, e.p, w, e.s \div ROW_SIZE))
    /\ nfills' = nfills + 1
    /\ last' = Call("fill", e.p, e.s, NULL)
    /\ UNCHANGED <<live, dead, misuse, caller, stats, memPages, jobTable, os,
          lookup, progStore, progCounter, got>>

\* misuse: a pointer that was freed and not returned again since
FreeDead(p) ==
    /\ Running
    /\ Commit(sf_free(Mach, p))
    /\ misuse' = TRUE
    /\ last' = Call("freedead", p, 0, NULL)
    /\ UNCHANGED <<live, dead, nfills, caller, stats, memPages, jobTable, os,
          lookup, progStore, progCounter, got>>

ReallocDeadReturn(r, p, rsize) ==
    /\ Commit(r.M)
    /\ misuse' = TRUE
    /\ last' = Call("reallocdead", p, rsize, r.ret)
    /\ UNCHANGED <<live, dead, nfills, caller, stats, memPages, jobTable, os,
          lookup, progStore, progCounter, got>>

ReallocDead(p, rsize) ==
    /\ Running
    /\ ReallocDeadReturn(sf_realloc(Mach, p, rsize, "up"), p, rsize)

FragmentationReturn(r) ==
    /\ Commit(r.M)
    /\ stats' = [stats EXCEPT !.frag = r.ret]
    /\ last' = Call("fragmentation", NULL, 0, NULL)
    /\ UNCHANGED <<live, dead, nfills, misuse, caller, memPages, jobTable, os,
          lookup, progStore, progCounter, got>>

InternalFragmentation ==
    /\ Running
    /\ FragmentationReturn(sf_internal_fragmentation(Mach))

UtilizationReturn(r) ==
    /\ Commit(r.M)
    /\ stats' = [stats EXCEPT !.peak = r.ret]
    /\ last' = Call("utilization", NULL, 0, NULL)
    /\ UNCHANGED <<live, dead, nfills, misuse, caller, memPages, jobTable, os,
          lookup, progStore, progCounter, got>>

PeakUtilization ==
    /\ Running
    /\ UtilizationReturn(sf_peak_utilization(Mach))

\* each call is counted, up to a number of calls
Counted(max) == nops < max /\ nops' = nops + 1

\* The mixed caller makes up to MaxOps calls of any kind, misuse included,
\* and stores into a payload up to MaxFills times.
Mixed == caller = "mixed"

NextMixed ==
    \/ \E size \in MallocSizes : Mixed /\ Malloc(size) /\ Counted(MaxOps)
    \/ \E e \in live : Mixed /\ Free(e) /\ Counted(MaxOps)
    \/ \E e \in live, rsize \in ReallocSizes, dir \in CopyDirs :
          Mixed /\ Realloc(e, rsize, dir) /\ Counted(MaxOps)
    \/ \E e \in live : \E w \in FillValues(e) :
          Mixed /\ Fill(e, w) /\ UNCHANGED nops
    \/ \E p \in dead : Mixed /\ FreeDead(p) /\ Counted(MaxOps)
    \/ \E p \in dead, rsize \in ReallocSizes :
          Mixed /\ ReallocDead(p, rsize) /\ Counted(MaxOps)

\* The quick caller fills the quick list of the minimum block size: it
\* makes up to MaxQuickMallocs requests for 24 bytes, and it frees the
\* allocation at the lowest or at the highest address.
Quick == caller = "quick"
Lowest(e) == \A f \in live : e.p <= f.p
Highest(e) == \A f \in live : e.p >= f.p

NextQuick ==
    \/ Quick /\ Malloc(24) /\ Counted(MaxQuickMallocs)
    \/ \E e \in live : Quick /\ Lowest(e) /\ Free(e) /\ UNCHANGED nops
    \/ \E e \in live : Quick /\ Highest(e) /\ Free(e) /\ UNCHANGED nops

\* The regrow caller makes up to MaxRegrowOps valid calls with blocks that
\* outgrow their place: requests of RegrowSizes bytes, sf_realloc to the
\* largest of them, sf_free, and stores of a row that reads as a zero header.
Regrow == caller = "regrow"
RegrowSizes == {24, 200, 216}
ZeroHeader == magic

NextRegrow ==
    \/ \E size \in RegrowSizes : Regrow /\ Malloc(size) /\ Counted(MaxRegrowOps)
    \/ \E e \in live : Regrow /\ Free(e) /\ Counted(MaxRegrowOps)
    \/ \E e \in live, dir \in CopyDirs :
          Regrow /\ Realloc(e, 216, dir) /\ Counted(MaxRegrowOps)
    \/ \E e \in live : Regrow /\ Fill(e, ZeroHeader) /\ UNCHANGED nops

\* The small caller makes up to MaxSmallOps valid calls with requests that
\* leave slack in a minimum-size block: 16 bytes from sf_malloc, 16 or 24
\* bytes from sf_realloc.
Small == caller = "small"
SmallReallocSizes == {16, 24}

NextSmall ==
    \/ Small /\ Malloc(16) /\ Counted(MaxSmallOps)
    \/ \E e \in live : Small /\ Free(e) /\ Counted(MaxSmallOps)
    \/ \E e \in live, rsize \in SmallReallocSizes, dir \in CopyDirs :
          Small /\ Realloc(e, rsize, dir) /\ Counted(MaxSmallOps)

\* The linker makes up to MaxLinkerOps valid calls with 24-byte requests
\* that it regrows to 40 bytes, and it stores the address of a payload into
\* the payload, as a list node that points to itself does, up to MaxFills
\* times.
Linker == caller = "linker"

NextLinker ==
    \/ Linker /\ Malloc(24) /\ Counted(MaxLinkerOps)
    \/ \E e \in live : Linker /\ Free(e) /\ Counted(MaxLinkerOps)
    \/ \E e \in live, dir \in CopyDirs :
          Linker /\ Realloc(e, 40, dir) /\ Counted(MaxLinkerOps)
    \/ \E e \in live : Linker /\ Fill(e, PtrRow(e.p)) /\ UNCHANGED nops

\* The fit caller makes up to MaxFitOps valid calls with requests that a
\* freed block of 208 bytes holds with 16 bytes to spare, exactly, or with
\* room for a split.
Fit == caller = "fit"
MaxFitOps == 4
FitSizes == {24, 184, 200}

NextFit ==
    \/ \E size \in FitSizes : Fit /\ Malloc(size) /\ Counted(MaxFitOps)
    \/ \E e \in live : Fit /\ Free(e) /\ Counted(MaxFitOps)

\* The stats caller makes up to MaxStatOps valid calls, the two statistics
\* functions among them.
Stat == caller = "stats"
StatMallocSizes == {16, 200, LastFit}
StatReallocSizes == {24, 216}

NextStat ==
    \/ \E size \in StatMallocSizes : Stat /\ Malloc(size) /\ Counted(MaxStatOps)
    \/ \E e \in live : Stat /\ Free(e) /\ Counted(MaxStatOps)
    \/ \E e \in live, rsize \in StatReallocSizes :
          Stat /\ Realloc(e, rsize, "up") /\ Counted(MaxStatOps)
    \/ Stat /\ InternalFragmentation /\ Counted(MaxStatOps)
    \/ Stat /\ PeakUtilization /\ Counted(MaxStatOps)

\* The oom caller runs where sf_mem_grow supplies 0 to MaxPages pages.  It
\* makes up to MaxOomOps valid calls; OverTwoPages bytes are more than
\* two pages can hold.
Oom == caller = "oom"
OverTwoPages == 2 * PAGE_SZ - 6 * ROW_SIZE
OomMallocSizes == {24, 200, LastFit, OverTwoPages}

NextOom ==
    \/ \E size \in OomMallocSizes : Oom /\ Malloc(size) /\ Counted(MaxOomOps)
    \/ \E e \in live : Oom /\ Free(e) /\ Counted(MaxOomOps)

----------------------------------------------------------------------------
(* The jobs module.  jobTable.jobs is the linked list from the global      *)
(* jobTable, in list order.  jobs_run never stores into the next field of  *)
(* the Job it allocates, so the link that ends the list reads as NULL or   *)
(* as a pointer to no Job: jobTable.tail is "null" or "wild".  Following a *)
(* wild link kills the process.                                            *)

JobTails == {"null", "wild"}

\* int lastJID = -2; for (; current != NULL && current->next != NULL; ...)
\*     lastJID = current->jobId;
\* the loop stops on the last Job when its next reads as NULL
LastJID(t) ==
    IF Len(t.jobs) < 2 THEN 0 - 2 ELSE t.jobs[Len(t.jobs) - 1].jobId

\* capturedOutput: whether the job has a buffer, and how many of its bytes
\* jobs_run has filled in; the buffer comes from malloc and the bytes behind
\* are not initialised
NoOutput == [buf |-> FALSE, n |-> 0]
NewJob(jobId, pid, capturedOutput) ==
    [jobId |-> jobId, pgId |-> pid, status |-> "RUNNING", canceled |-> 0,
     capturedOutput |-> capturedOutput]

\* the first of the list positions in S, 0 when there is none
FirstJob(S) == IF S = {} THEN 0 ELSE CHOOSE i \in S : \A k \in S : i <= k

findJobById(t, jobId) ==
    FirstJob({i \in 1..Len(t.jobs) : t.jobs[i].jobId = jobId})
findJobByPid(t, pid) ==
    FirstJob({i \in 1..Len(t.jobs) : t.jobs[i].pgId = pid})

\* a search that finds no Job reads the link that ends the list
SearchDies(t, found) == found = 0 /\ t.tail = "wild"

\* the handlers without their test for RUNNING
Terminate_Mutant(t, pid, status) ==
    IF findJobByPid(t, pid) = 0 THEN t
    ELSE [t EXCEPT !.jobs[findJobByPid(t, pid)].status = status]

\* the handlers sigchld, sigabrt and sigkill: the first job of the process
\* group gets the status when it is running
Terminate(t, pid, status) ==
    IF findJobByPid(t, pid) = 0 THEN t
    ELSE IF t.jobs[findJobByPid(t, pid)].status # "RUNNING" THEN t
    ELSE [t EXCEPT !.jobs[findJobByPid(t, pid)].status = status]

sigchld(t, pid) == Terminate(t, pid, "COMPLETED")
sigabrt(t, pid) == Terminate(t, pid, "ABORTED")
sigkill(t, pid) == Terminate(t, pid, "CANCELED")

Unlink(jobs, i) ==
    [k \in 1..(Len(jobs) - 1) |-> IF k < i THEN jobs[k] ELSE jobs[k + 1]]

TerminalStatus == {"COMPLETED", "ABORTED", "CANCELED"}

jobs_poll(t, jobid) ==
    IF findJobById(t, jobid) = 0 THEN 0 - 1
    ELSE IF t.jobs[findJobById(t, jobid)].status \in TerminalStatus THEN 0
    ELSE 0 - 1

jobs_get_output(t, jobid) ==
    IF findJobById(t, jobid) = 0 THEN NoOutput
    ELSE IF t.jobs[findJobById(t, jobid)].status \in {"NEW", "RUNNING"}
        THEN NoOutput
    ELSE t.jobs[findJobById(t, jobid)].capturedOutput

\* ret is what jobs_expunge returns
jobs_expunge(t, jobid) ==
    IF findJobById(t, jobid) = 0 THEN [t |-> t, ret |-> 0 - 1]
    ELSE IF t.jobs[findJobById(t, jobid)].status \in {"NEW", "RUNNING"}
        THEN [t |-> t, ret |-> 0 - 1]
    ELSE [t |-> [t EXCEPT !.jobs = Unlink(t.jobs, findJobById(t, jobid))],
          ret |-> 0]

\* ret is what jobs_cancel returns, kill the process group that is sent
\* SIGKILL, 0 for none
jobs_cancel(t, jobid) ==
    IF findJobById(t, jobid) = 0 THEN [t |-> t, ret |-> 0 - 1, kill |-> 0]
    ELSE IF t.jobs[findJobById(t, jobid)].status \notin {"NEW", "RUNNING"}
            \/ t.jobs[findJobById(t, jobid)].canceled # 0
        THEN [t |-> t, ret |-> 0 - 1, kill |-> 0]
    ELSE [t |-> [t EXCEPT !.jobs[findJobById(t, jobid)].canceled = 1],
          ret |-> 0,
          kill |-> t.jobs[findJobById(t, jobid)].pgId]

----------------------------------------------------------------------------
(* The processes.  os.procs[pid] is the leader with process id pid:        *)
(* "none" before its fork, "alive", "dying" once SIGKILL was sent to it,   *)
(* "zombie" once it terminated and "reaped" once waitpid collected it.     *)
(* SIGCHLD is a standard signal: while one is pending another one is not   *)
(* queued.  os.pending is the si_pid of the pending SIGCHLD, 0 for none;   *)
(* os.blocked tells that the signal mask holds SIGCHLD and SIGABRT;        *)
(* os.observed holds the leaders whose termination the parent has seen, in *)
(* the handler or through waitpid; os.run is the call of jobs_run that has *)
(* forked and not yet linked its Job.                                      *)

Pids == 1..MaxJobRuns
SIGKILL == 9
SIGABRT == 6
NoStage == [how |-> "none", code |-> 0]

\* A pipeline, as far as jobs_run and the capture of its output go: the
\* capture_output flag and the sizes of the writes of its last stage to its
\* standard output, in bytes.
Pipeline(capture_output, writes) ==
    [capture_output |-> capture_output, writes |-> writes]
MaxWrite == 9
Pipelines == {Pipeline(0, <<>>), Pipeline(1, <<2>>), Pipeline(1, <<1, 1>>),
              Pipeline(1, <<MaxWrite>>)}
Idle == [pc |-> "idle", jobId |-> 0, pid |-> 0, tail |-> "null",
         pline |-> Pipeline(0, <<>>)]

RECURSIVE SumFirst(_, _)
SumFirst(writes, m) == IF m = 0 THEN 0 ELSE writes[m] + SumFirst(writes, m - 1)
Written(writes) == SumFirst(writes, Len(writes))
Min(a, b) == IF a < b THEN a ELSE b

\* sizeof(job->capturedOutput): the size of a char*
SIZEOF_POINTER == 8

\* read(pipes[0], job->capturedOutput, sizeof(job->capturedOutput)): the one
\* read returns once the pipe holds bytes, with what the writes done so far
\* have put there, up to its count
ReadResults(writes) ==
    {Min(SumFirst(writes, m), SIZEOF_POINTER) : m \in 1..Len(writes)}

\* what the last stage of a pipeline does: it exits with a code, or a
\* signal terminates it
Exited(code) == [how |-> "exit", code |-> code]
Signaled(sig) == [how |-> "signal", code |-> sig]
ExitCodes == {0, 1}
StageOutcomes == {Exited(c) : c \in ExitCodes} \cup {Signaled(SIGKILL)}

\* the status waitpid stores for a process that exited with a code, and for
\* one that a signal terminated
W_EXITCODE(ret, sig) == ret * 256 + sig
WEXITSTATUS(status) == (status \div 256) % 256
WTERMSIG(status) == status % 128

\* while (wait(NULL) > 0); exit(0);
LeaderExitCode(stage) == 0

\* a leader terminates: it is a zombie, and SIGCHLD is raised for the parent
Raise(o, pid) == IF o.pending = 0 THEN [o EXCEPT !.pending = pid] ELSE o

Zombie(o, pid, stage, status) ==
    Raise([o EXCEPT !.procs[pid].state = "zombie",
                    !.procs[pid].stage = stage,
                    !.procs[pid].status = status], pid)

\* killpg(pgId, SIGKILL) reaches a leader that is alive
Kill(o, pid) ==
    IF pid \in Pids /\ o.procs[pid].state = "alive"
    THEN [o EXCEPT !.procs[pid].state = "dying"] ELSE o

\* The jobs caller starts up to MaxJobRuns jobs, each led by a process of
\* its own, and polls, cancels, waits for and expunges jobs by id while the
\* leaders terminate and their signals arrive.
Jobs == caller = "jobs"
JobIds == {2 * k : k \in 0..(MaxJobRuns - 1)}
JobPids == {jobTable.jobs[i].pgId : i \in 1..Len(jobTable.jobs)}
Allocator == <<heap, heads, quick, maxAggPayload, sf_errno, magic, live, dead,
               nfills, misuse, caller, stats, memPages>>

JobsCall(op, p, ret, t, o, died) ==
    /\ fault = "none"
    /\ jobTable' = t
    /\ os' = o
    /\ fault' = IF died THEN "segv" ELSE "none"
    /\ last' = Call(op, p, 0, ret)
    /\ UNCHANGED Allocator
    /\ UNCHANGED <<lookup, progStore, progCounter, got>>

\* the main control flow is between two calls
MainIdle == os.run.pc = "idle"

\* jobs_run up to the return of fork in the parent: the job id is chosen,
\* the handlers are installed and the leader runs; newTail is how the next
\* field of the Job to come reads
JobsRunFork(newTail, pline) ==
    /\ MainIdle
    /\ Counted(MaxJobRuns)
    /\ IF jobTable.tail = "wild"
       THEN JobsCall("jobs_run", NULL, 0 - 1, jobTable, os, TRUE)
       ELSE JobsCall("fork", NULL, nops + 1, jobTable,
                     [os EXCEPT !.procs[nops + 1].state = "alive",
                                !.procs[nops + 1].writes = pline.writes,
                                !.run = [pc |-> "forked",
                                         jobId |-> LastJID(jobTable) + 2,
                                         pid |-> nops + 1,
                                         tail |-> newTail,
                                         pline |-> pline]],
                     FALSE)

\* what fork returns in the parent when no process could be made
FORK_FAILED == 0 - 1

\* jobs_run up to the return of a fork that fails: no leader runs
JobsRunForkFails(newTail) ==
    /\ MainIdle
    /\ Counted(MaxJobRuns)
    /\ IF jobTable.tail = "wild"
       THEN JobsCall("jobs_run", NULL, 0 - 1, jobTable, os, TRUE)
       ELSE JobsCall("fork", NULL, FORK_FAILED, jobTable,
                     [os EXCEPT !.run = [pc |-> "forked",
                                         jobId |-> LastJID(jobTable) + 2,
                                         pid |-> FORK_FAILED,
                                         tail |-> newTail,
                                         pline |-> Pipeline(0, <<>>)]],
                     FALSE)

\* jobs_run(NULL), and jobs_run of a pipeline whose commands are NULL
JobsRunInvalid ==
    /\ MainIdle
    /\ JobsCall("jobs_run", NULL, 0 - 1, jobTable, os, FALSE)
    /\ UNCHANGED nops

\* jobs_fini frees every Job of the list, following the next fields, and
\* leaves jobTable as it is; the caller makes no call after it
JobsFini ==
    /\ MainIdle
    /\ JobsCall("jobs_fini", NULL, 0, jobTable,
                [os EXCEPT !.run.pc = "finished"], jobTable.tail = "wild")
    /\ UNCHANGED nops

\* the rest of jobs_run in the parent: the Job is linked behind the Job
\* that was the last one before the fork, and with capture_output set the
\* buffer is allocated and read into once
JobsRunLinked(capturedOutput) ==
    JobsCall("jobs_run", NULL, os.run.jobId,
             [jobs |-> Append(jobTable.jobs,
                              NewJob(os.run.jobId, os.run.pid, capturedOutput)),
              tail |-> os.run.tail],
             [os EXCEPT !.run = Idle], FALSE)

JobsRunLink ==
    /\ os.run.pc = "forked"
    /\ IF os.run.pline.capture_output = 0
       THEN JobsRunLinked(NoOutput)
       ELSE \E n \in ReadResults(os.run.pline.writes) :
                JobsRunLinked([buf |-> TRUE, n |-> n])
    /\ UNCHANGED nops

LeaderExits(pid, stage) ==
    /\ os.procs[pid].state = "alive"
    /\ JobsCall("exit", pid, 0, jobTable,
                Zombie(os, pid, stage, W_EXITCODE(LeaderExitCode(stage), 0)),
                FALSE)
    /\ UNCHANGED nops

LeaderKilled(pid) ==
    /\ os.procs[pid].state = "dying"
    /\ JobsCall("killed", pid, 0, jobTable,
                Zombie(os, pid, NoStage, W_EXITCODE(0, SIGKILL)), FALSE)
    /\ UNCHANGED nops

\* the pending SIGCHLD is delivered: the handler runs
Deliver ==
    /\ os.pending # 0 /\ ~os.blocked
    /\ JobsCall("sigchld", os.pending, 0, sigchld(jobTable, os.pending),
                [os EXCEPT !.pending = 0,
                           !.observed = @ \cup {os.pending}],
                SearchDies(jobTable, findJobByPid(jobTable, os.pending)))
    /\ UNCHANGED nops

\* a process that got the process id of a reaped leader sends SIGABRT
StrayAbort(pid) ==
    /\ os.procs[pid].state = "reaped" /\ ~os.blocked
    /\ JobsCall("sigabrt", pid, 0, sigabrt(jobTable, pid), os,
                SearchDies(jobTable, findJobByPid(jobTable, pid)))
    /\ UNCHANGED nops

JobsPoll(jobid) ==
    /\ MainIdle
    /\ JobsCall("jobs_poll", jobid, jobs_poll(jobTable, jobid), jobTable, os,
                SearchDies(jobTable, findJobById(jobTable, jobid)))
    /\ UNCHANGED nops

JobsExpungeReturn(r, jobid, died) ==
    JobsCall("jobs_expunge", jobid, r.ret, r.t, os, died)

JobsExpunge(jobid) ==
    /\ MainIdle
    /\ JobsExpungeReturn(jobs_expunge(jobTable, jobid), jobid,
                         SearchDies(jobTable, findJobById(jobTable, jobid)))
    /\ UNCHANGED nops

JobsCancelReturn(r, jobid, died) ==
    JobsCall("jobs_cancel", jobid, r.ret, r.t, Kill(os, r.kill), died)

JobsCancel(jobid) ==
    /\ MainIdle
    /\ JobsCancelReturn(jobs_cancel(jobTable, jobid), jobid,
                        SearchDies(jobTable, findJobById(jobTable, jobid)))
    /\ UNCHANGED nops

\* the char* that jobs_get_output returns, as the number of bytes of the
\* buffer that hold output, -1 for NULL
OutputBytes(capturedOutput) ==
    IF capturedOutput.buf THEN capturedOutput.n ELSE 0 - 1

JobsGetOutput(jobid) ==
    /\ MainIdle
    /\ JobsCall("jobs_get_output", jobid,
                OutputBytes(jobs_get_output(jobTable, jobid)), jobTable, os,
                SearchDies(jobTable, findJobById(jobTable, jobid)))
    /\ UNCHANGED nops

\* what the int status of jobs_wait may hold when waitpid stored nothing
UninitInts == {0 - 1, 0, SIGKILL}

\* waitpid collects the zombie pid
Reap(o, pid) ==
    [o EXCEPT !.procs[pid].state = "reaped", !.observed = @ \cup {pid}]

\* a system call returns to the main control flow: a pending signal that
\* is not blocked is delivered first
HandlerRuns(o) == o.pending # 0 /\ ~o.blocked

SyscallReturn(t, o) ==
    IF HandlerRuns(o)
    THEN [t |-> sigchld(t, o.pending),
          o |-> [o EXCEPT !.pending = 0, !.observed = @ \cup {o.pending}],
          died |-> SearchDies(t, findJobByPid(t, o.pending))]
    ELSE [t |-> t, o |-> o, died |-> FALSE]

JobsWaitReturn(r, jobid, ret) ==
    JobsCall("jobs_wait", jobid, ret, r.t, r.o, r.died)

\* jobs_wait returns: the job is unknown, or waitpid has collected the
\* leader, which had terminated, or waitpid has failed for a leader that was
\* collected before; it does not return while the leader runs
JobsWait(jobid) ==
    /\ MainIdle
    /\ IF findJobById(jobTable, jobid) = 0
       THEN JobsCall("jobs_wait", jobid, 0 - 1, jobTable, os,
                     SearchDies(jobTable, 0))
       ELSE \E pid \in Pids :
            /\ pid = jobTable.jobs[findJobById(jobTable, jobid)].pgId
            /\ \/ /\ os.procs[pid].state = "zombie"
                  /\ JobsWaitReturn(SyscallReturn(jobTable, Reap(os, pid)),
                                    jobid, os.procs[pid].status)
               \/ /\ os.procs[pid].state = "reaped"
                  /\ \E ret \in UninitInts :
                      JobsWaitReturn(SyscallReturn(jobTable, os), jobid, ret)
    /\ UNCHANGED nops

\* sigprocmask(SIG_BLOCK, ...) and no sigprocmask(SIG_UNBLOCK, ...)
JobsPause ==
    /\ MainIdle
    /\ JobsCall("jobs_pause", NULL, 0, jobTable, [os EXCEPT !.blocked = TRUE],
                FALSE)
    /\ UNCHANGED nops

NextJobs ==
    \/ \E newTail \in JobTails : Jobs /\ JobsRunFork(newTail, Pipeline(0, <<>>))
    \/ Jobs /\ JobsRunLink
    \/ \E pid \in Pids, stage \in StageOutcomes : Jobs /\ LeaderExits(pid, stage)
    \/ \E pid \in Pids : Jobs /\ LeaderKilled(pid)
    \/ Jobs /\ Deliver
    \/ \E pid \in Pids : Jobs /\ StrayAbort(pid)
    \/ \E jobid \in JobIds : Jobs /\ JobsPoll(jobid)
    \/ \E jobid \in JobIds : Jobs /\ JobsExpunge(jobid)
    \/ \E jobid \in JobIds : Jobs /\ JobsCancel(jobid)
    \/ \E jobid \in JobIds : Jobs /\ JobsWait(jobid)
    \/ Jobs /\ JobsPause

\* The capture caller runs pipelines of every kind, with and without
\* capture_output, and asks for the output of its jobs.
Capture == caller = "capture"

NextCapture ==
    \/ \E newTail \in JobTails, pline \in Pipelines :
           Capture /\ JobsRunFork(newTail, pline)
    \/ Capture /\ JobsRunLink
    \/ \E pid \in Pids, stage \in StageOutcomes :
           Capture /\ LeaderExits(pid, stage)
    \/ Capture /\ Deliver
    \/ \E jobid \in JobIds : Capture /\ JobsGetOutput(jobid)
    \/ \E jobid \in JobIds : Capture /\ JobsExpunge(jobid)

----------------------------------------------------------------------------
(* The data store.  A C string is the sequence of its characters, which    *)
(* ends where the terminating 0 is read; a char* is such a string or NULL. *)

MaxStrLen == 2
Chars == {"-", "0", "9", ":"}
NullStr == [null |-> TRUE, s |-> <<>>]
Str(s) == [null |-> FALSE, s |-> s]

\* the value of a char
Ord(ch) ==
    CASE ch = "-" -> 45 [] ch = "0" -> 48 [] ch = "9" -> 57 [] ch = ":" -> 58
      [] ch = "x" -> 120 [] ch = "y" -> 121

\* str[c], c counted from 1; the terminator behind the last character
CharAt(str, c) == IF c <= Len(str) THEN Ord(str[c]) ELSE 0

RECURSIVE kvStrEqLoop(_, _, _)
kvStrEqLoop(str1, str2, c) ==
    IF CharAt(str1, c) = 0 /\ CharAt(str2, c) = 0 THEN 1
    ELSE IF CharAt(str1, c) # CharAt(str2, c) THEN 0 - 1
    ELSE kvStrEqLoop(str1, str2, c + 1)
kvStrEq(str1, str2) == kvStrEqLoop(str1, str2, 1)

\* the position of the first KVPair whose key is var, 0 when there is none
FindKey(lk, var) ==
    FirstJob({i \in 1..Len(lk) : kvStrEq(lk[i].key, var) > 0})

store_get_string(lk, var) ==
    IF FindKey(lk, var) = 0 THEN NullStr ELSE lk[FindKey(lk, var)].val

\* the loop of store_get_int over val from position c on: ret is what the
\* function returns, build the int built so far
RECURSIVE GetIntLoop(_, _, _)
GetIntLoop(val, c, build) ==
    IF CharAt(val, c) = 0 THEN [ret |-> 0, build |-> build]
    ELSE IF CharAt(val, c) < Ord("0") \/ CharAt(val, c) > Ord("9")
        THEN [ret |-> 0 - 1, build |-> build]
    ELSE GetIntLoop(val, c + 1, build * 10 + (CharAt(val, c) - Ord("0")))

\* int mult and the first position c that the loop reads
GetIntSign(val) ==
    IF CharAt(val, 1) = Ord("-") THEN [mult |-> 0 - 1, c |-> 2]
    ELSE [mult |-> 1, c |-> 1]

\* ret is what store_get_int returns, valp what *valp holds afterwards
store_get_int(lk, var, valp) ==
    IF store_get_string(lk, var).null THEN [ret |-> 0 - 1, valp |-> valp]
    ELSE IF GetIntLoop(store_get_string(lk, var).s,
                       GetIntSign(store_get_string(lk, var).s).c, 0).ret # 0
        THEN [ret |-> 0 - 1, valp |-> valp]
    ELSE [ret |-> 0,
          valp |-> GetIntLoop(store_get_string(lk, var).s,
                              GetIntSign(store_get_string(lk, var).s).c,
                              0).build
                   * GetIntSign(store_get_string(lk, var).s).mult]

\* strdup(val): strdup reads its argument to measure it, and NULL cannot
\* be read
strdupDies(val) == val.null

\* lk is the list afterwards, ret what store_set_string returns, died
\* whether the process dies inside the call
store_set_string(lk, var, val) ==
    IF strdupDies(val) THEN [lk |-> lk, ret |-> 0 - 1, died |-> TRUE]
    ELSE IF FindKey(lk, var) # 0
        THEN [lk |-> [lk EXCEPT ![FindKey(lk, var)].val = val],
              ret |-> 0, died |-> FALSE]
    ELSE [lk |-> Append(lk, [key |-> var, val |-> val]), ret |-> 0,
          died |-> FALSE]

\* The store caller sets the variables x and xy to strings of up to
\* MaxStrLen characters, or to NULL, and reads them.
StoreCaller == caller = "store"
StoreVars == {<<"x">>, <<"x", "y">>}
Strings == UNION {[1..n -> Chars] : n \in 0..MaxStrLen}
StoreVals == {Str(s) : s \in Strings} \cup {NullStr}
JobsState == <<jobTable, os>>
ProgState == <<progStore, progCounter>>

StoreCall(op, ret, lk, g, died) ==
    /\ fault = "none"
    /\ lookup' = lk
    /\ got' = g
    /\ fault' = IF died THEN "segv" ELSE "none"
    /\ last' = Call(op, NULL, 0, ret)
    /\ UNCHANGED <<Allocator, nops, JobsState, ProgState>>

StoreSetStringReturn(r, var, val) ==
    StoreCall("store_set_string", r.ret, r.lk,
              [var |-> var, str |-> val, valp |-> 0, n |-> 0], r.died)

StoreSetString(var, val) ==
    StoreSetStringReturn(store_set_string(lookup, var, val), var, val)

StoreGetString(var) ==
    StoreCall("store_get_string", 0, lookup,
              [var |-> var, str |-> store_get_string(lookup, var),
               valp |-> 0, n |-> 0], FALSE)

StoreGetIntReturn(r, var) ==
    StoreCall("store_get_int", r.ret, lookup,
              [var |-> var, str |-> NullStr, valp |-> r.valp, n |-> 0], FALSE)

StoreGetInt(var) ==
    StoreGetIntReturn(store_get_int(lookup, var, 0), var)

NextStore ==
    \/ \E var \in StoreVars, val \in StoreVals : StoreCaller /\ StoreSetString(var, val)
    \/ \E var \in StoreVars : StoreCaller /\ StoreGetString(var)
    \/ \E var \in StoreVars : StoreCaller /\ StoreGetInt(var)

----------------------------------------------------------------------------
(* The program store.  The list of ProgStmts is the sequence of their      *)
(* statements; a statement is its line number and its text.                *)

MaxLine == 3
LineNos == 0..MaxLine
Texts == {1, 2}
Stmt(lineno, text) == [null |-> FALSE, lineno |-> lineno, text |-> text]
NullStmt == [null |-> TRUE, lineno |-> 0, text |-> 0]
Stmts == {Stmt(l, t) : l \in LineNos, t \in Texts}
PROG_END == 0 - 1

\* new linked before the current node, the i-th
InsertBefore(ps, i, stmt) ==
    SubSeq(ps, 1, i - 1) \o <<stmt>> \o SubSeq(ps, i, Len(ps))

\* the loop of prog_insert with current the i-th node
RECURSIVE InsertWalk(_, _, _)
InsertWalk(ps, stmt, i) ==
    IF ps[i].lineno = stmt.lineno
        THEN [ps |-> [ps EXCEPT ![i] = stmt], ret |-> 0]
    ELSE IF ps[i].lineno > stmt.lineno
        THEN [ps |-> InsertBefore(ps, i, stmt), ret |-> 0]
    ELSE IF i = Len(ps) THEN [ps |-> Append(ps, stmt), ret |-> 0]
    ELSE InsertWalk(ps, stmt, i + 1)

\* ps is the store afterwards, ret what prog_insert returns
prog_insert_Mutant(ps, stmt) ==
    IF stmt.null THEN [ps |-> ps, ret |-> 0 - 1]
    ELSE [ps |-> Append(ps, stmt), ret |-> 0]
prog_insert(ps, stmt) ==
    IF stmt.null THEN [ps |-> ps, ret |-> 0 - 1]
    ELSE IF ps = <<>> THEN [ps |-> <<stmt>>, ret |-> 0]
    ELSE InsertWalk(ps, stmt, 1)

\* the first loop of prog_delete with current the i-th node
RECURSIVE DeleteWalk(_, _, _, _)
DeleteWalk(ps, i, min, max) ==
    IF i > Len(ps) THEN ps
    ELSE IF ps[i].lineno >= min /\ ps[i].lineno <= max
        THEN DeleteWalk(SubSeq(ps, 1, i - 1) \o SubSeq(ps, i + 1, Len(ps)),
                        i, min, max)
    ELSE DeleteWalk(ps, i + 1, min, max)

\* the second loop of prog_delete with current the i-th node
RECURSIVE CounterWalk(_, _, _)
CounterWalk(ps, pc, i) ==
    IF ps[i].lineno >= pc THEN ps[i].lineno
    ELSE IF i = Len(ps) THEN PROG_END
    ELSE CounterWalk(ps, pc, i + 1)

\* progCounter after prog_delete has removed the statements
DeleteCounter(ps, pc, min, max) ==
    IF pc < min \/ pc > max THEN pc
    ELSE IF ps = <<>> THEN PROG_END
    ELSE CounterWalk(ps, pc, 1)

\* ps and pc are the store and the counter afterwards, ret is what
\* prog_delete returns; the empty store is a NULL progStore, which line
\* 354 reads through
prog_delete(ps, pc, min, max) ==
    IF max < min THEN [ps |-> ps, pc |-> pc, ret |-> 0 - 1, died |-> FALSE]
    ELSE IF ps = <<>> THEN [ps |-> ps, pc |-> pc, ret |-> 0 - 1, died |-> TRUE]
    ELSE [ps |-> DeleteWalk(ps, 1, min, max),
          pc |-> DeleteCounter(DeleteWalk(ps, 1, min, max), pc, min, max),
          ret |-> 0, died |-> FALSE]

prog_reset(ps) == IF ps # <<>> THEN ps[1].lineno ELSE PROG_END

\* the position of the statement with this line number, 0 for none
FindLine(ps, lineno) ==
    FirstJob({i \in 1..Len(ps) : ps[i].lineno = lineno})

\* progCounter after prog_next
prog_next(ps, pc) ==
    IF pc < 0 \/ FindLine(ps, pc) = 0 THEN pc
    ELSE IF FindLine(ps, pc) = Len(ps) THEN PROG_END
    ELSE ps[FindLine(ps, pc) + 1].lineno

\* progCounter after prog_goto
prog_goto(ps, pc, lineno) == IF FindLine(ps, lineno) # 0 THEN lineno ELSE pc

\* The prog caller inserts statements with line numbers up to MaxLine,
\* deletes ranges and moves the program counter.
Prog == caller = "prog"
StoreState == <<lookup>>

ProgCall(op, p, size, ret, ps, pc, died) ==
    /\ fault = "none"
    /\ progStore' = ps
    /\ progCounter' = pc
    /\ got' = [var |-> <<>>, str |-> NullStr, valp |-> 0, n |-> Len(progStore)]
    /\ fault' = IF died THEN "segv" ELSE "none"
    /\ last' = Call(op, p, size, ret)
    /\ UNCHANGED <<Allocator, nops, JobsState, StoreState>>

ProgInsertReturn(r, stmt) ==
    ProgCall("prog_insert", stmt.lineno, stmt.text, r.ret, r.ps, progCounter,
             FALSE)

ProgInsert(stmt) == ProgInsertReturn(prog_insert(progStore, stmt), stmt)

ProgDeleteReturn(r, min, max) ==
    ProgCall("prog_delete", min, max, r.ret, r.ps, r.pc, r.died)

ProgDelete(min, max) ==
    ProgDeleteReturn(prog_delete(progStore, progCounter, min, max), min, max)

ProgReset ==
    ProgCall("prog_reset", 0, 0, 0, progStore, prog_reset(progStore), FALSE)

ProgNext ==
    ProgCall("prog_next", 0, 0, 0, progStore,
             prog_next(progStore, progCounter), FALSE)

ProgGoto(lineno) ==
    ProgCall("prog_goto", lineno, 0, 0, progStore,
             prog_goto(progStore, progCounter, lineno), FALSE)

DeleteBounds == (0 - 1)..MaxLine

NextProg ==
    \/ \E stmt \in Stmts \cup {NullStmt} : Prog /\ ProgInsert(stmt)
    \/ \E min \in DeleteBounds, max \in DeleteBounds : Prog /\ ProgDelete(min, max)
    \/ Prog /\ ProgReset
    \/ Prog /\ ProgNext
    \/ \E lineno \in LineNos : Prog /\ ProgGoto(lineno)

\* The session caller runs jobs, some of them with an invalid pipeline or
\* at a time when fork fails, and ends with jobs_fini, after which the
\* program exits.
Session == caller = "session"
InSession == Session /\ os.run.pc # "finished"

NextSession ==
    \/ \E newTail \in JobTails :
           InSession /\ JobsRunFork(newTail, Pipeline(0, <<>>))
    \/ \E newTail \in JobTails : InSession /\ JobsRunForkFails(newTail)
    \/ InSession /\ JobsRunInvalid
    \/ InSession /\ JobsRunLink
    \/ \E pid \in Pids, stage \in StageOutcomes :
           InSession /\ LeaderExits(pid, stage)
    \/ InSession /\ Deliver
    \/ \E jobid \in JobIds : InSession /\ JobsPoll(jobid)
    \/ InSession /\ JobsFini

Next ==
    \/ NextMixed \/ NextQuick \/ NextRegrow \/ NextSmall \/ NextLinker
    \/ NextStat \/ NextOom \/ NextJobs \/ NextCapture
    \/ NextSession \/ NextStore \/ NextProg \/ NextFit

Spec == Init /\ [][Next]_vars

\* each caller on its own
InitMixed == Init /\ Mixed
InitQuick == Init /\ Quick
InitRegrow == Init /\ Regrow
InitSmall == Init /\ Small
InitStat == Init /\ Stat
InitLinker == Init /\ Linker
InitOom == Init /\ Oom
InitJobs == Init /\ Jobs
InitCapture == Init /\ Capture
InitSession == Init /\ Session
InitStore == Init /\ StoreCaller
InitProg == Init /\ Prog
InitFit == Init /\ Fit

SpecMixed == InitMixed /\ [][NextMixed]_vars
SpecQuick == InitQuick /\ [][NextQuick]_vars
SpecRegrow == InitRegrow /\ [][NextRegrow]_vars
SpecSmall == InitSmall /\ [][NextSmall]_vars
SpecStat == InitStat /\ [][NextStat]_vars
SpecLinker == InitLinker /\ [][NextLinker]_vars
SpecOom == InitOom /\ [][NextOom]_vars
SpecJobs == InitJobs /\ [][NextJobs]_vars

\* The scheduling the jobs claims about progress rest on: the kernel delivers
\* a pending signal that is not blocked, a process that was sent SIGKILL
\* dies, and the parent's call of jobs_run runs to its return.
JobsFairness ==
    /\ WF_vars(Jobs /\ Deliver)
    /\ WF_vars(Jobs /\ JobsRunLink)
    /\ \A pid \in Pids : WF_vars(Jobs /\ LeaderKilled(pid))
SpecFit == InitFit /\ [][NextFit]_vars
SpecProg == InitProg /\ [][NextProg]_vars
SpecStore == InitStore /\ [][NextStore]_vars
SpecSession == InitSession /\ [][NextSession]_vars
SpecCapture == InitCapture /\ [][NextCapture]_vars
SpecJobsFair == InitJobs /\ [][NextJobs]_vars /\ JobsFairness

----------------------------------------------------------------------------
(* The heap as the allocator's own walks see it *)

\* the header of block b with MAGIC removed
Hdr(b) == XorMagic(Mach, Load(Mach, HeaderAt(b)))
BlockSize(b) == SizeOf(Hdr(b))
Allocated(b) == Bit(Hdr(b), THIS_BLOCK_ALLOCATED) = 1
PrevAllocated(b) == Bit(Hdr(b), PREV_BLOCK_ALLOCATED) = 1

Prologue == mem_start(Mach)

\* the address at which the walk from b by block sizes stops: the epilogue,
\* an address past it, or a block of a size no block can have
RECURSIVE WalkEnd(_)
WalkEnd(b) ==
    IF b >= Epilogue(Mach) THEN b
    ELSE IF BlockSize(b) < MIN_BLOCK_SIZE \/ BlockSize(b) % BLOCK_ALIGN # 0
        THEN 0 - 1
    ELSE WalkEnd(b + BlockSize(b))

\* the blocks the walk visits before it stops
RECURSIVE WalkBlocks(_)
WalkBlocks(b) ==
    IF b >= Epilogue(Mach) \/ BlockSize(b) < MIN_BLOCK_SIZE THEN {}
    ELSE {b} \cup WalkBlocks(b + BlockSize(b))

HeapBlocks == WalkBlocks(FirstBlock(Mach))

\* the blocks linked in free list c, following next from the dummy head
RECURSIVE ListBlocks(_, _, _)
ListBlocks(c, b, fuel) ==
    IF b = HeadAddr(c) \/ fuel = 0 \/ ~Mapped(Mach, NextAt(b)) THEN {}
    ELSE {b} \cup ListBlocks(c, RowPtr(Load(Mach, NextAt(b))), fuel - 1)

FreeList(c) ==
    ListBlocks(c, RowPtr(Load(Mach, NextAt(HeadAddr(c)))), ListFuel)

\* the process is alive, the heap exists and every call so far was valid
Settled == fault = "none" /\ ~misuse /\ heap # <<>>

\* ... and the last step was a call of the allocator that has returned
AfterCall == Settled /\ last.op # "fill"

----------------------------------------------------------------------------
(* Properties *)

\* C1: after any sequence of valid calls, caller stores into payloads
\* included, the walk from the first block by block sizes visits only
\* blocks of a size that is a multiple of 16 and at least 32 and lands
\* exactly on the epilogue
C1_HeapTiled == Settled => WalkEnd(FirstBlock(Mach)) = Epilogue(Mach)

\* a call of sf_malloc or sf_realloc returns a pointer in this step
Returns ==
    /\ Running
    /\ nops' = nops + 1
    /\ last'.op \in {"malloc", "realloc"}
    /\ last'.ret # NULL
    /\ fault' = "none"

Disjoint(e1, e2) == e1.p + e1.s <= e2.p \/ e2.p + e2.s <= e1.p

\* C2: the byte ranges [p, p + s) of two distinct live allocations are
\* disjoint: the range a call returns is disjoint from the range of every
\* allocation that is live before the call, the one the call reallocates
\* excepted
C2_LiveDisjoint ==
    [][Returns =>
          \A e \in live :
             e.p # last'.p =>
                Disjoint(e, [p |-> last'.ret, s |-> last'.size])]_vars

RowIndex(a) == (a - HEAP_BASE) \div ROW_SIZE + 1

\* the rows of the first n bytes at p2 after the step are the rows of the
\* first n bytes at p before it
SameBytes(p2, p, n) ==
    \A k \in 0..(n \div ROW_SIZE - 1) :
       heap'[RowIndex(p2) + k] = heap[RowIndex(p) + k]

ReallocStep(e) ==
    /\ Running
    /\ nops' = nops + 1
    /\ last'.op = "realloc"
    /\ last'.p = e.p
    /\ last'.ret # NULL
    /\ fault' = "none"

\* C3: a successful sf_realloc of a live allocation of m bytes to n bytes
\* leaves the first min(m, n) bytes of the old payload at the returned
\* pointer
C3_ReallocPreserves ==
    [][\A e \in live :
          ReallocStep(e) => SameBytes(last'.ret, e.p, Min(e.s, last'.size))]_vars

\* C4: sf_free of a pointer that sf_malloc or sf_realloc returned and that
\* was not freed since does not abort
C4_FreeValidNoAbort ==
    last.op = "free" => fault # "abort"

\* C5: sf_free or sf_realloc of a pointer that was already freed aborts
C5_FreedPointerAborts ==
    last.op \in {"freedead", "reallocdead"} => fault = "abort"

\* C6: no two physically adjacent blocks are both free
C6_NoAdjacentFree ==
    AfterCall =>
      \A b \in HeapBlocks :
         ~Allocated(b) /\ b + BlockSize(b) \in HeapBlocks
            => Allocated(b + BlockSize(b))

\* C7: the PREV_BLOCK_ALLOCATED bit of every block after the prologue, the
\* epilogue included, equals the THIS_BLOCK_ALLOCATED bit of the block
\* physically before it
C7_PrevAllocConsistent ==
    AfterCall =>
      /\ PrevAllocated(FirstBlock(Mach))
      /\ \A b \in HeapBlocks :
            PrevAllocated(b + BlockSize(b)) = Allocated(b)

\* C8: every free block is linked in exactly one free list, the list of
\* the size class of its block size
C8_FreeBlocksListed ==
    AfterCall =>
      \A b \in HeapBlocks :
         ~Allocated(b) =>
            \A c \in 0..(NUM_FREE_LISTS - 1) :
               (b \in FreeList(c)) = (c = bytesToFreeListIndex(BlockSize(b)))

\* C9: the prev_footer of the block physically after a free block equals
\* the free block's header
C9_FooterOfFree ==
    AfterCall =>
      \A b \in HeapBlocks :
         ~Allocated(b) =>
            Load(Mach, b + BlockSize(b)) = Load(Mach, HeaderAt(b))

\* C10: every quick list holds at most QUICK_LIST_MAX blocks
C10_QuickBounded ==
    AfterCall => \A q \in 1..NUM_QUICK_LISTS : quick[q].length <= QUICK_LIST_MAX

\* the blocks of quick list q, following next from first for length blocks
RECURSIVE QuickChain(_, _)
QuickChain(b, n) ==
    IF n = 0 \/ b = NULL \/ ~Mapped(Mach, NextAt(b)) THEN {}
    ELSE {b} \cup QuickChain(RowPtr(Load(Mach, NextAt(b))), n - 1)

QuickBlocks(q) == QuickChain(RowPtr(quick[q].first), quick[q].length)

\* the quick list a block of this size is parked in
QuickIndex(size) == (size - MIN_BLOCK_SIZE) \div BLOCK_ALIGN + 1

\* this step is a call of sf_free that returns
FreeStep == Running /\ last'.op = "free" /\ live' # live /\ fault' = "none"

\* ... and that meets quick list q at capacity: the push is refused
FlushStep(q) ==
    /\ FreeStep
    /\ QuickIndex(BlockSize(last'.p - 2 * ROW_SIZE)) = q
    /\ quick[q].length > QUICK_LIST_MAX

\* the memory of block b is part of a free block that is linked in the free
\* list of its size class
FreeAndListed(b) ==
    \E f \in HeapBlocks :
       /\ f <= b /\ b < f + BlockSize(f)
       /\ ~Allocated(f)
       /\ f \in FreeList(bytesToFreeListIndex(BlockSize(f)))

\* C11: the flush of a quick list leaves every block that was in the list
\* inside a free block linked in the free list of its size class, and the
\* quick list holds the newly freed block alone
C11_FlushFrees ==
    [][\A q \in 1..NUM_QUICK_LISTS :
          FlushStep(q) =>
             /\ quick'[q] = [length |-> 1,
                             first |-> PtrRow(last'.p - 2 * ROW_SIZE)]
             /\ \A b \in QuickBlocks(q) : FreeAndListed(b)']_vars

\* the block of a payload pointer
BlockOf(p) == p - 2 * ROW_SIZE

\* the last step was a call that returned a pointer
Returned ==
    Settled /\ last.op \in {"malloc", "realloc"} /\ last.ret # NULL

\* C12: a pointer that sf_malloc or sf_realloc returns is a multiple of 16
\* and its block lies between the end of the prologue and the epilogue
C12_ReturnedInHeap ==
    Returned =>
       /\ last.ret % BLOCK_ALIGN = 0
       /\ BlockOf(last.ret) >= FirstBlock(Mach)
       /\ BlockOf(last.ret) + BlockSize(BlockOf(last.ret)) <= Epilogue(Mach)

\* the sum of the payload sizes of the allocated blocks from b on that are
\* not in a quick list
RECURSIVE SumPayload(_)
SumPayload(b) ==
    IF b >= Epilogue(Mach) \/ BlockSize(b) < MIN_BLOCK_SIZE THEN 0
    ELSE (IF Allocated(b) /\ ~IS_QUICK(Mach, b) THEN GET_PAYLOAD(Mach, b) ELSE 0)
         + SumPayload(b + BlockSize(b))

AggregatePayload == SumPayload(FirstBlock(Mach))

\* C13: after a call returns the recorded peak aggregate payload is at
\* least the current aggregate payload
C13_PeakCoversCurrent == AfterCall => maxAggPayload >= AggregatePayload

UtilizationStep == Running /\ last'.op = "utilization" /\ fault' = "none"

\* C14: a call of sf_peak_utilization returns at least what the previous
\* call returned (0 before the first call)
C14_UtilizationMonotone ==
    [][UtilizationStep => RatioLeq(stats.peak, stats'.peak)]_vars

\* the allocated blocks that are not in a quick list
CountedBlocks == {b \in HeapBlocks : Allocated(b) /\ ~IS_QUICK(Mach, b)}

FragmentationReturned == fault = "none" /\ ~misuse /\ last.op = "fragmentation"

MallocFailed == Settled /\ last.op = "malloc" /\ last.ret = NULL

\* C16: when sf_mem_grow supplies no page for the request sf_malloc returns
\* NULL with sf_errno = ENOMEM and the allocated blocks, their sizes and
\* their payload sizes are as before the call
C16_OutOfMemory ==
    /\ (fault = "none" /\ last.op = "malloc" /\ memPages = 0) =>
          last.ret = NULL /\ sf_errno = ENOMEM /\ heap = <<>>
    /\ MallocFailed =>
          /\ sf_errno = ENOMEM
          /\ AllocatedBlocks = last.held

\* sf_malloc failed after the heap had grown to a second page, with a block
\* allocated before the call
C16_Witness ==
    /\ Settled
    /\ last.op = "malloc" /\ last.ret = NULL /\ sf_errno = ENOMEM
    /\ Len(heap) = 2 * (PAGE_SZ \div ROW_SIZE)
    /\ live # {}

MallocStep == Running /\ last'.op = "malloc" /\ fault' = "none"

\* sf_malloc is called for a size whose quick list q is not empty
QuickHit(q) ==
    /\ MallocStep
    /\ QuickIndex(EffectiveSize(last'.size)) = q
    /\ quick[q].length > 0

\* sf_free puts a block at the head of quick list q, which has room
QuickFreed(q) ==
    /\ FreeStep
    /\ QuickIndex(BlockSize(BlockOf(last'.p))) = q
    /\ quick[q].length < QUICK_LIST_MAX

\* C17: a freed block becomes the head of the quick list of its size, and
\* sf_malloc for that size returns the head and removes it; on a fresh heap
\* sf_malloc(16) gives a 32-byte block, freeing it leaves one block in the
\* first quick list, and the next sf_malloc(16) returns it again
C17_QuickLifo ==
    [][/\ \A q \in 1..NUM_QUICK_LISTS :
            /\ QuickFreed(q) =>
                  quick'[q] = [length |-> quick[q].length + 1,
                               first |-> PtrRow(BlockOf(last'.p))]
            /\ QuickHit(q) =>
                  /\ last'.ret = PayloadOf(RowPtr(quick[q].first))
                  /\ quick'[q].length = quick[q].length - 1
                  /\ QuickBlocks(q)' = QuickBlocks(q) \ {BlockOf(last'.ret)}
       /\ (FreeStep /\ nops = 1 /\ last.size = 16) =>
             /\ last'.held = {<<BlockOf(last'.p), MIN_BLOCK_SIZE, 16>>}
             /\ quick'[1] = [length |-> 1, first |-> PtrRow(BlockOf(last'.p))]
       /\ (/\ MallocStep /\ nops = 2 /\ last'.size = 16
           /\ last.op = "free"
           /\ last.held = {<<BlockOf(last.p), MIN_BLOCK_SIZE, 16>>}) =>
             last'.ret = last.p]_vars

\* the third call of a run, sf_malloc(16), returned the block the second
\* call freed
C17_Witness ==
    /\ Settled /\ nops = 3
    /\ last.op = "malloc" /\ last.size = 16
    /\ last.held = {}
    /\ \E b \in HeapBlocks : last.ret = PayloadOf(b) /\ Allocated(b)
    /\ quick[1].length = 0

\* the blocks of the first three sf_malloc(16) on a fresh heap, and what
\* follows them in the first page
SlotA == HEAP_BASE + 4 * ROW_SIZE
SlotB == SlotA + MIN_BLOCK_SIZE
SlotC == SlotB + MIN_BLOCK_SIZE
Remainder == SlotC + MIN_BLOCK_SIZE
FirstFreeSize == PAGE_SZ - 6 * ROW_SIZE

\* the blocks linked in the free lists
AllFreeListed == UNION {FreeList(c) : c \in 0..(NUM_FREE_LISTS - 1)}

\* a, b, c were allocated, b was freed, c was freed, and now a is freed
FreeAfterBC ==
    /\ FreeStep
    /\ nops = 5 /\ last.op = "free" /\ last.p = PayloadOf(SlotC)
    /\ last.held = {<<SlotA, MIN_BLOCK_SIZE, 16>>, <<SlotC, MIN_BLOCK_SIZE, 16>>}
    /\ dead = {PayloadOf(SlotB), PayloadOf(SlotC)}
    /\ last'.p = PayloadOf(SlotA)

\* C18 as stated: after the frees of b, c and a the free lists hold one
\* block, which spans the three slots and the remainder behind them
C18_OneCoalescedBlock ==
    [][FreeAfterBC =>
          /\ AllFreeListed' = {SlotA}
          /\ BlockSize(SlotA)' = FirstFreeSize]_vars

\* C18 amended: after the frees of b, c and a the three 32-byte blocks are
\* in the first quick list, a at its head, still marked allocated, and the
\* free lists hold the remainder behind them alone
C18_ThreeQuickBlocks ==
    [][FreeAfterBC =>
          /\ quick'[1] = [length |-> 3, first |-> PtrRow(SlotA)]
          /\ QuickBlocks(1)' = {SlotA, SlotB, SlotC}
          /\ \A b \in {SlotA, SlotB, SlotC} :
                Allocated(b)' /\ BlockSize(b)' = MIN_BLOCK_SIZE
          /\ AllFreeListed' = {Remainder}
          /\ BlockSize(Remainder)' = FirstFreeSize - 3 * MIN_BLOCK_SIZE
          /\ ~Allocated(Remainder)']_vars

\* a was freed last, after b and c
C18_Witness ==
    /\ Settled /\ nops = 6 /\ live = {}
    /\ last.op = "free" /\ last.p = PayloadOf(SlotA)
    /\ last.held = {<<SlotA, MIN_BLOCK_SIZE, 16>>}
    /\ dead = {PayloadOf(SlotA), PayloadOf(SlotB), PayloadOf(SlotC)}
    /\ quick[1].length = 3

\* sf_realloc is called for the allocation e the caller owns, with a size
\* rsize whose effective size its block can hold
ReallocInPlace(e, rsize) ==
    /\ Running
    /\ last'.op = "realloc" /\ last'.p = e.p /\ last'.size = rsize
    /\ EffectiveSize(rsize) <= BlockSize(BlockOf(e.p))

\* the size of the free block the tail of block b becomes when the block
\* is cut down to reffectiveSize: the remainder, and the successor's size
\* too when the successor is free
TailSize(b, reffectiveSize) ==
    (BlockSize(b) - reffectiveSize)
      + (IF Allocated(b + BlockSize(b)) THEN 0 ELSE BlockSize(b + BlockSize(b)))

\* the call returned pp for block b, now with payload size rsize, and the
\* tail behind reffectiveSize bytes is a listed free block or slack
DoneInPlace(pp, b, rsize, reffectiveSize) ==
    /\ fault' = "none"
    /\ last'.ret = pp
    /\ Allocated(b)'
    /\ Hdr(b)'[1] = rsize
    /\ IF BlockSize(b) - reffectiveSize >= MIN_BLOCK_SIZE
       THEN /\ BlockSize(b)' = reffectiveSize
            /\ ~Allocated(b + reffectiveSize)'
            /\ BlockSize(b + reffectiveSize)' = TailSize(b, reffectiveSize)
            /\ (b + reffectiveSize) \in AllFreeListed'
       ELSE BlockSize(b)' = BlockSize(b)

\* the sizes the callers pass to sf_realloc
AllReallocSizes == ReallocSizes \cup SmallReallocSizes \cup StatReallocSizes

\* C19: sf_realloc to a size the block can hold returns the same pointer
\* and records the new payload size; a remainder of 32 bytes or more
\* becomes a free block, merged with a free successor, and a smaller
\* remainder leaves the block size as it was
C19_ReallocInPlace ==
    [][\A e \in live, rsize \in AllReallocSizes :
          ReallocInPlace(e, rsize) =>
             DoneInPlace(e.p, BlockOf(e.p), rsize, EffectiveSize(rsize))]_vars

\* C20: no two jobs in the job table have the same job id
C20_UniqueJobIds ==
    fault = "none" =>
       \A i, k \in 1..Len(jobTable.jobs) :
          jobTable.jobs[i].jobId = jobTable.jobs[k].jobId => i = k


----------------------------------------------------------------------------
(* The jobs of the table, as the claims about them read them.              *)

JobAt(i) == jobTable.jobs[i]
JobSlots == 1..Len(jobTable.jobs)
\* no other job of the table has the id of job i
UniqueId(i) == \A k \in JobSlots : JobAt(k).jobId = JobAt(i).jobId => k = i
\* the call that has just returned is op(jobid)
Returned1(op, jobid) == fault = "none" /\ last.op = op /\ last.p = jobid

\* C21: from the return of jobs_run until the parent has observed the exit
\* of the job's leader the job is RUNNING and jobs_poll(id) returns -1; once
\* the exit has been observed jobs_poll(id) returns 0 for as long as the job
\* is in the table.  Stated for the jobs whose id no other job has.
C21_PollFollowsLeader ==
    \A i \in JobSlots :
        UniqueId(i) =>
            /\ JobAt(i).pgId \notin os.observed => JobAt(i).status = "RUNNING"
            /\ Returned1("jobs_poll", JobAt(i).jobId) =>
                   last.ret = IF JobAt(i).pgId \in os.observed THEN 0
                              ELSE 0 - 1

\* the leader of job i has terminated, and how
LeaderOf(i) == os.procs[JobAt(i).pgId]
LeaderGone(i) == LeaderOf(i).state \in {"zombie", "reaped"}
LeaderObserved(i) == LeaderGone(i) /\ JobAt(i).pgId \in os.observed

\* C22: a job on which jobs_cancel returned 0 and whose leader then died
\* from SIGKILL is CANCELED once the death has been observed; jobs_poll then
\* returns 0 and a second jobs_cancel returns -1.
C22_CanceledJobEndsCanceled ==
    \A i \in JobSlots :
        (/\ UniqueId(i)
         /\ JobAt(i).canceled = 1
         /\ LeaderObserved(i)
         /\ WTERMSIG(LeaderOf(i).status) = SIGKILL) =>
            /\ JobAt(i).status = "CANCELED"
            /\ Returned1("jobs_poll", JobAt(i).jobId) => last.ret = 0
            /\ Returned1("jobs_cancel", JobAt(i).jobId) => last.ret = 0 - 1

\* the jobs of the table that the process pid leads
LedBy(pid) == {i \in JobSlots : JobAt(i).pgId = pid}
Terminated(pid) == os.procs[pid].state \in {"zombie", "reaped"}
AllTerminal(pid) ==
    \A i \in LedBy(pid) : jobs_poll(jobTable, JobAt(i).jobId) = 0
                          /\ JobAt(i).status \in TerminalStatus

\* C23: under every interleaving of the signals, a job whose leader has
\* terminated eventually has a terminal status, so that jobs_poll returns 0
\* for it (unless it left the table, or the parent itself died).
C23_TerminatedLeaderEventuallyPolls ==
    \A pid \in Pids :
        (Terminated(pid) /\ os.run.pc = "idle")
            ~> (fault # "none" \/ (os.run.pc = "idle" /\ AllTerminal(pid)))

\* jobs_wait(jobid) has just returned and the leader of the job it found
\* has been reaped
WaitedFor(i) ==
    /\ Returned1("jobs_wait", JobAt(i).jobId)
    /\ findJobById(jobTable, JobAt(i).jobId) = i
    /\ LeaderOf(i).state = "reaped"

\* C24: when jobs_wait(id) has returned with the leader reaped, the
\* jobs_expunge(id) issued next returns 0.
C24_ExpungeAfterWait ==
    [][\A i \in JobSlots :
          (/\ UniqueId(i)
           /\ WaitedFor(i)
           /\ last'.op = "jobs_expunge"
           /\ last'.p = JobAt(i).jobId) => last'.ret = 0]_vars

\* C25: a job whose last stage was terminated by a signal, with no cancel
\* requested, ends ABORTED: its leader dies from SIGABRT and the parent
\* records ABORTED once it has observed that.
C25_SignaledStageAborts ==
    \A i \in JobSlots :
        (/\ UniqueId(i)
         /\ JobAt(i).canceled = 0
         /\ LeaderObserved(i)
         /\ LeaderOf(i).stage.how = "signal") =>
            /\ WTERMSIG(LeaderOf(i).status) = SIGABRT
            /\ JobAt(i).status = "ABORTED"

\* C26: when the last stage exits with code c the leader exits with code c,
\* so the status that jobs_wait returns after collecting the leader carries
\* the exit code c, for every c.
C26_WaitCarriesExitCode ==
    [][\A i \in JobSlots :
          (/\ UniqueId(i)
           /\ LeaderOf(i).state = "zombie"
           /\ LeaderOf(i).stage.how = "exit"
           /\ fault' = "none"
           /\ last'.op = "jobs_wait"
           /\ last'.p = JobAt(i).jobId
           /\ os'.procs[JobAt(i).pgId].state = "reaped") =>
              /\ WTERMSIG(last'.ret) = 0
              /\ WEXITSTATUS(last'.ret) = LeaderOf(i).stage.code]_vars

\* the step is a call op(jobid) that returns
CallReturns(op, jobid) == fault' = "none" /\ last'.op = op /\ last'.p = jobid
\* the job that jobid names has a terminal status
TerminalJob(jobid) ==
    /\ findJobById(jobTable, jobid) # 0
    /\ JobAt(findJobById(jobTable, jobid)).status \in TerminalStatus

\* C27: jobs_expunge(id) returns 0 only for a job in a terminal status and
\* otherwise returns -1 and leaves the table as it is; right after it has
\* returned 0 no job with that id is observable, jobs_poll(id) returns -1 and
\* jobs_get_output(id) returns NULL.
C27_ExpungeRemovesJob ==
    [][\A jobid \in JobIds :
          CallReturns("jobs_expunge", jobid) =>
              IF TerminalJob(jobid)
              THEN /\ last'.ret = 0
                   /\ jobs_poll(jobTable', jobid) = 0 - 1
                   /\ jobs_get_output(jobTable', jobid) = NoOutput
                   /\ \A i \in 1..Len(jobTable'.jobs) :
                          jobTable'.jobs[i].jobId # jobid
              ELSE last'.ret = 0 - 1 /\ jobTable' = jobTable]_vars

\* the job that jobid names can be cancelled: it is in the table, it has
\* not terminated and no cancel was requested for it
Cancellable(jobid) ==
    /\ findJobById(jobTable, jobid) # 0
    /\ JobAt(findJobById(jobTable, jobid)).status \in {"NEW", "RUNNING"}
    /\ JobAt(findJobById(jobTable, jobid)).canceled = 0

\* C28: jobs_cancel returns 0 at most once for a job: it returns 0 for a job
\* that can be cancelled and marks it, and it returns -1 for an unknown id,
\* for a terminal job and for a job already marked, and then sends no signal
\* and changes no job.
C28_CancelOnce ==
    [][\A jobid \in JobIds :
          (fault = "none" /\ last'.op = "jobs_cancel" /\ last'.p = jobid) =>
              /\ fault' = "none"
              /\ IF Cancellable(jobid)
                 THEN /\ last'.ret = 0
                      /\ jobTable'.jobs[findJobById(jobTable, jobid)].canceled = 1
                 ELSE /\ last'.ret = 0 - 1
                      /\ jobTable' = jobTable
                      /\ os' = os]_vars

\* the status of job i before a step and of the same job after it (a job
\* is known by its leader)
StatusStep(i, k) ==
    jobTable'.jobs[k].pgId = JobAt(i).pgId =>
        \/ jobTable'.jobs[k].status = JobAt(i).status
        \/ /\ JobAt(i).status = "RUNNING"
           /\ jobTable'.jobs[k].status \in TerminalStatus

\* C29: the status of a job changes at most once, from RUNNING to
\* COMPLETED, ABORTED or CANCELED; no handler and no call changes a terminal
\* status or takes a job back to NEW or RUNNING, whatever signals arrive
\* later for the same leader.
C29_StatusChangesOnce ==
    [][\A i \in JobSlots :
          \A k \in 1..Len(jobTable'.jobs) : StatusStep(i, k)]_vars

\* a handler has run for the leader of a job that was terminal already
C29_Witness ==
    /\ fault = "none"
    /\ last.op = "sigabrt"
    /\ \E i \in JobSlots : JobAt(i).pgId = last.p /\ JobAt(i).status = "COMPLETED"

\* C30: with capture_output set, once the job is terminal jobs_get_output
\* returns the buffer holding exactly the bytes that the last stage wrote to
\* its standard output, whatever their number and however the writes were
\* split.
C30_OutputCaptured ==
    \A i \in JobSlots :
        (/\ UniqueId(i)
         /\ Returned1("jobs_get_output", JobAt(i).jobId)
         /\ JobAt(i).status \in TerminalStatus
         /\ JobAt(i).capturedOutput.buf) =>
            last.ret = Written(LeaderOf(i).writes)

\* C33: jobs_pause does not return before a signal of the interest set has
\* been delivered to the process after the call began, and then it returns
\* 0: over the call a handler has run.
C33_PauseWaitsForSignal ==
    [][(fault = "none" /\ fault' = "none" /\ last'.op = "jobs_pause") =>
          /\ last'.ret = 0
          /\ os'.observed # os.observed]_vars

\* C31: when fork fails inside jobs_run, and when the pipeline is NULL or
\* has no commands, jobs_run returns -1 and adds no job to the table.
C31_RunFailsCleanly ==
    [][(/\ fault = "none" /\ fault' = "none"
        /\ last'.op = "jobs_run"
        /\ os.run.pc = "idle" \/ os.run.pid = FORK_FAILED) =>
          /\ last'.ret = 0 - 1
          /\ jobTable' = jobTable]_vars

\* C32: jobs_fini sends SIGKILL to the process group of every job that is
\* not terminal, waits for those leaders, and returns with the job table
\* empty: when it has returned no leader of a job runs any more, every
\* leader has been collected and the table holds no job.
C32_FiniCleansUp ==
    (fault = "none" /\ last.op = "jobs_fini") =>
        /\ jobTable.jobs = <<>>
        /\ \A pid \in Pids : os.procs[pid].state \in {"none", "reaped"}

----------------------------------------------------------------------------
(* The data store's claims                                                 *)

\* the strings made of an optional '-' and one or more decimal digits
Digits == {"0", "9"}
IsDecimal(s) ==
    \/ Len(s) >= 1 /\ \A i \in 1..Len(s) : s[i] \in Digits
    \/ Len(s) >= 2 /\ s[1] = "-" /\ \A i \in 2..Len(s) : s[i] \in Digits

\* C34: store_get_int returns 0 exactly when the variable's stored string
\* is an optional '-' followed by one or more decimal digits, and -1 for
\* an unset variable and for every other string, the empty string and a
\* lone "-" among them.
C34_GetIntAcceptsDecimals ==
    (fault = "none" /\ last.op = "store_get_int") =>
        /\ last.ret \in {0, 0 - 1}
        /\ last.ret = 0 <=>
              /\ ~store_get_string(lookup, got.var).null
              /\ IsDecimal(store_get_string(lookup, got.var).s)

\* C35: store_set_string(var, NULL) removes the variable's value, so that
\* store_get_string(var) returns NULL afterwards, and leaves the other
\* variables as they were.
C35_SetNullRemoves ==
    [][(fault = "none" /\ last'.op = "store_set_string" /\ got'.str.null) =>
          /\ fault' = "none"
          /\ store_get_string(lookup', got'.var).null
          /\ \A var \in StoreVars \ {got'.var} :
                store_get_string(lookup', var) = store_get_string(lookup, var)]_vars
----------------------------------------------------------------------------
(* The program store's claims                                              *)

LineNosOf(ps) == {ps[i].lineno : i \in 1..Len(ps)}

\* the line number of the first statement of ps beyond lineno, PROG_END when
\* there is none
FirstBeyond(ps, lineno) ==
    IF \E l \in LineNosOf(ps) : l > lineno
        THEN CHOOSE l \in LineNosOf(ps) :
                 l > lineno /\ \A k \in LineNosOf(ps) : k > lineno => l <= k
        ELSE PROG_END

\* C36: after prog_delete(min, max) on a non-empty store the counter is
\* unchanged if it was past the end or before a statement outside
\* [min, max]; if it was before a deleted statement it is before the
\* first remaining statement with a larger line number, or past the end.
C36_DeleteKeepsCounter ==
    [][(/\ fault = "none" /\ fault' = "none"
        /\ last'.op = "prog_delete"
        /\ progStore # <<>>) =>
          IF \/ progCounter < 0
             \/ progCounter \in LineNosOf(progStore)
                  /\ (progCounter < last'.p \/ progCounter > last'.size)
              THEN progCounter' = progCounter
              ELSE progCounter' = FirstBeyond(progStore', progCounter)]_vars

StrictlyIncreasing(ps) ==
    \A i \in 1..Len(ps), j \in 1..Len(ps) : i < j => ps[i].lineno < ps[j].lineno

\* C37: after every prog_insert and prog_delete the store holds its
\* statements in strictly increasing order of line number; a prog_insert
\* of a line number that is present replaces that statement, and
\* prog_insert leaves the program counter alone.
C37_StoreStaysOrdered ==
    [][(fault = "none" /\ fault' = "none") =>
          /\ StrictlyIncreasing(progStore')
          /\ (last'.op = "prog_insert" /\ last'.ret = 0) =>
                /\ progCounter' = progCounter
                /\ \E i \in 1..Len(progStore') :
                     progStore'[i] = Stmt(last'.p, last'.size)
                /\ LineNosOf(progStore') = LineNosOf(progStore) \cup {last'.p}
                /\ \A l \in LineNosOf(progStore) \ {last'.p} :
                      progStore'[FindLine(progStore', l)]
                          = progStore[FindLine(progStore, l)]]_vars

\* prog_insert has replaced the statement the counter is before, in a
\* store of two or more statements
C37_Witness ==
    /\ fault = "none"
    /\ last.op = "prog_insert" /\ last.ret = 0
    /\ got.n = Len(progStore) /\ got.n >= 2
    /\ progCounter = last.p
----------------------------------------------------------------------------
(* The allocator's claims about single blocks                              *)

\* sf_free(e.p) returns in this step
FreeOf(e) ==
    /\ Running
    /\ heap # <<>>
    /\ last'.op = "free"
    /\ last'.p = e.p
    /\ fault' = "none"

\* block b is too large for the quick lists
BeyondQuick(b) ==
    (BlockSize(b) - MIN_BLOCK_SIZE) \div BLOCK_ALIGN >= NUM_QUICK_LISTS

\* the block physically before b is allocated, the block physically after
\* it is allocated or the epilogue
BetweenAllocated(b) ==
    /\ \E a \in HeapBlocks : a + BlockSize(a) = b /\ Allocated(a)
    /\ Allocated(b + BlockSize(b))

\* C38: a block that becomes free is merged with the block physically
\* before it exactly when that block is free, and with the block after it
\* exactly when that one is free, also when the caller has written the
\* payload bytes of the allocated block before it: sf_free of a block too
\* large for the quick lists whose two neighbours are allocated leaves it
\* a free block of the size it had, with its PREV_BLOCK_ALLOCATED bit.
C38_CoalesceByNeighbours ==
    [][\A e \in live :
          (/\ FreeOf(e)
           /\ WalkEnd(FirstBlock(Mach)) = Epilogue(Mach)
           /\ BeyondQuick(BlockOf(e.p))
           /\ BetweenAllocated(BlockOf(e.p))) =>
             /\ ~Allocated(BlockOf(e.p))'
             /\ BlockSize(BlockOf(e.p))' = BlockSize(BlockOf(e.p))
             /\ PrevAllocated(BlockOf(e.p))']_vars

\* a valid call of sf_malloc, sf_free or sf_realloc returns in this step,
\* and e is live before and after it
CallBeside(e) ==
    /\ Running
    /\ heap # <<>>
    /\ last'.op \in {"malloc", "free", "realloc"}
    /\ fault' = "none"
    /\ e \in live'

\* C40: a call of sf_malloc, sf_free or sf_realloc on one block writes no
\* byte of the requested payload range [p, p + s) of another allocation
\* that is live throughout the call.
C40_OtherPayloadsUntouched ==
    [][\A e \in live : CallBeside(e) => SameBytes(e.p, e.p, e.s)]_vars

\* max(32, align16(size + 8))
Align16(n) == ((n + 15) \div 16) * 16
EffectiveOf(size) ==
    IF Align16(size + 8) < 32 THEN 32 ELSE Align16(size + 8)

InQuickList(b) == Bit(Hdr(b), IN_QUICK_LIST) = 1

\* sf_malloc(size) returns block b in this step
MallocGives(b, size) ==
    /\ MallocStep
    /\ last'.ret # NULL
    /\ last'.size = size
    /\ b = BlockOf(last'.ret)

\* ... and b was a block of the free lists before the call, on a heap
\* that the call did not extend
FromFreeList(b) ==
    /\ heap # <<>>
    /\ Len(heap') = Len(heap)
    /\ b \in HeapBlocks
    /\ ~Allocated(b)

\* ... and b was a block of a quick list before the call
FromQuickList(b) ==
    /\ heap # <<>>
    /\ b \in HeapBlocks
    /\ InQuickList(b)

\* the block at b after the step, for a request of effective size e
TakenOrSplit(b, e) ==
    /\ FromQuickList(b) => BlockSize(b)' = e
    /\ FromFreeList(b) =>
          IF BlockSize(b) - e >= 32
              THEN /\ BlockSize(b)' = e
                   /\ ~Allocated(b + e)'
                   /\ BlockSize(b + e)' = BlockSize(b) - e
              ELSE BlockSize(b)' = BlockSize(b)

\* C39: the block sf_malloc(size) returns has block size e or e + 16, with
\* e the effective size of the request; a block of the free lists whose
\* size exceeds e by 32 or more is split into an allocated prefix of e
\* bytes and a free suffix of the remainder, and is taken whole otherwise;
\* a block of a quick list has size e; the payload-size field of the
\* header is size.
C39_MallocBlockSize ==
    [][\A b \in {BlockOf(last'.ret)}, size \in {last'.size} :
          MallocGives(b, size) =>
             /\ Allocated(b)'
             /\ BlockSize(b)' \in {EffectiveOf(size), EffectiveOf(size) + 16}
             /\ Hdr(b)'[1] = size
             /\ TakenOrSplit(b, EffectiveOf(size))]_vars

\* sf_malloc has returned a block of the free lists that it took whole,
\* 16 bytes larger than the effective size of the request
C39_Witness ==
    /\ AfterCall
    /\ last.op = "malloc" /\ last.ret # NULL
    /\ Allocated(BlockOf(last.ret))
    /\ BlockSize(BlockOf(last.ret)) = EffectiveOf(last.size) + 16
====
